---- MODULE Spec2Model ----
(***************************************************************************)
(* Model of the sandboxed git workflow agents of developer-agents:         *)
(*   - the sandbox managers (git-sandbox-agent/tools/sandbox_manager.py,   *)
(*     git-clone-agent/tools/sandbox_manager.py) over a small filesystem,  *)
(*   - GitSandboxAgent (git-sandbox-agent/core/agent.py),                  *)
(*   - GitOrchestratorAgent.run_git_workflow                               *)
(*     (git-orchestrator-agent/core/agent.py),                             *)
(*   - main of git-orchestrator-agent/full_workflow_example.py.            *)
(*                                                                         *)
(* A path is the sequence of its components below "/", exactly as          *)
(* pathlib keeps them: ".." components are NOT collapsed by pathlib, they  *)
(* are resolved by the operating system when the path is used.             *)
(***************************************************************************)
EXTENDS Integers, Sequences, FiniteSets, TLC

VARIABLES
    prog,      \* the caller that runs: "manager", "sandbox_agent", ...
    fs,        \* the filesystem: [dirs |-> set of paths, files |-> set of paths]
    locked,    \* nodes whose removal fails (rmtree ignores the error)
    handle,    \* the path the caller of the sandbox manager holds
    last,      \* the last call of the caller and what it did
    agent,     \* a GitSandboxAgent: [sandbox_path, working_dir]
    pc,        \* the position of a workflow run
    loaded,    \* GitOrchestratorAgent.agents: the agents _load_agents found
    impl,      \* the class behind each agent name: "repo" or "iface"
    result,    \* the result dictionary of run_git_workflow
    sandbox_path,  \* the local sandbox_path of the workflow run
    trace,     \* the steps the run has issued, in order: [op, ok]
    clone_agent,   \* a GitCloneAgent: [working_dir, clone_dir, success, error]
    created,   \* the directories the managers created for the caller, so far
    runs,      \* the live sandbox of each concurrent run, or None
    patch,     \* the blocks, or the files, the text is written from
    wire,      \* the text handed to parse_file_changes
    parsed,    \* what parse_file_changes returned for it
    invocations,   \* the subprocess.run calls of the last operation
    call,      \* the last call of a tool function: its name and arguments
    ret,       \* what that call returned or raised
    repo,      \* the working tree process_repo changes: [dirs, files]
    existed,   \* the files of the working tree when process_repo started
    io_fail,   \* the files of the working tree that cannot be opened for writing
    results,   \* what apply_changes returned
    summary,   \* what generate_diff_summary returned, line by line
    markers,   \* the configuration files in the directory run_validation runs in
    validation_results,    \* GitSandboxAgent.validation_results
    report,    \* what GitSandboxAgent.generate_report returned
    commit_agent   \* the attributes of a GitCommitAgent

mgrvars == <<handle, last, agent>>
wfvars == <<pc, loaded, impl, result, sandbox_path, trace>>
codervars == <<repo, existed, io_fail, results, summary>>
valvars == <<markers, validation_results, report>>
toolvars == <<call, ret, codervars, valvars, commit_agent>>
patchvars == <<patch, wire, parsed>>
extvars == <<clone_agent, runs, patchvars, toolvars>>
vars == <<prog, fs, locked, handle, last, agent, pc, loaded, impl, result,
          sandbox_path, trace, clone_agent, created, runs, patch, wire, parsed,
          invocations, call, ret, repo, existed, io_fail, results, summary,
          markers, validation_results, report, commit_agent>>

----------------------------------------------------------------------------
\* Bounds of the model.

\* longest candidate path handed to a cleanup function, in components
MaxDepth == 3
\* calls one caller makes
MaxCalls == 3

----------------------------------------------------------------------------
\* Paths and the filesystem.

None == <<"None">>
ENOENT == <<"ENOENT">>

\* ROOT_SANDBOX_DIR = abspath(<agent>/application-sandbox): absolute, no ".."
ROOT_SANDBOX_DIR == <<"application-sandbox">>

SandboxIds == {"sandbox-1", "sandbox-2"}
Names == {"application-sandbox", "sandbox-1", "home", "f"}
Segs == Names \cup {".."}

RECURSIVE SeqsUpTo(_, _)
SeqsUpTo(S, n) ==
    IF n = 0 THEN {<<>>}
    ELSE LET shorter == SeqsUpTo(S, n - 1)
         IN  shorter \cup {Append(q, s) : q \in {r \in shorter : Len(r) = n - 1}, s \in S}

\* the candidate paths a caller may pass
CandidatePaths == SeqsUpTo(Segs, MaxDepth) \ {<<>>}

IsPrefix(a, b) == Len(a) <= Len(b) /\ SubSeq(b, 1, Len(a)) = a

Parent(p) == IF p = <<>> THEN <<>> ELSE SubSeq(p, 1, Len(p) - 1)

Nodes(f) == f.dirs \cup f.files

\* PurePath.is_relative_to: a comparison of the components, nothing is resolved
is_relative_to(path, root) == IsPrefix(root, path)

\* "/" and the directories of the filesystem
IsDir(f, n) == n = <<>> \/ n \in f.dirs

\* what the operating system resolves a path to: every component before a
\* step must be a directory, ".." steps to the parent ("/" is its own parent)
RECURSIVE Walk(_, _, _)
Walk(f, cur, rest) ==
    IF rest = <<>> THEN cur
    ELSE IF ~IsDir(f, cur) THEN ENOENT
    ELSE Walk(f, IF Head(rest) = ".." THEN Parent(cur) ELSE Append(cur, Head(rest)),
              Tail(rest))

Resolve(f, path) == Walk(f, <<>>, path)

\* Path.exists
exists(f, path) == Resolve(f, path) \in Nodes(f) \cup {<<>>}

\* a node can be removed when neither it nor anything below it is locked
Removable(f, l, n) == ~\E k \in l \cap Nodes(f) : IsPrefix(n, k)

\* a removal that is not recursive: it takes the files and the empty
\* directories of the tree and leaves the directories that held them
rmtree_shallow(f, l, path) ==
    LET t == Resolve(f, path)
    IN  IF IsDir(f, t)
        THEN {n \in Nodes(f) : /\ IsPrefix(t, n)
                               /\ n \notin l
                               /\ ~\E m \in Nodes(f) : Parent(m) = n /\ Len(m) > Len(n)}
        ELSE {}

\* the nodes shutil.rmtree(path, ignore_errors=True) removes: the tree below
\* the directory the path resolves to; what cannot be removed stays, with
\* the directories above it; a path that is no directory is an ignored error
rmtree_removed(f, l, path) ==
    LET t == Resolve(f, path)
    IN  IF IsDir(f, t)
        THEN {n \in Nodes(f) : IsPrefix(t, n) /\ Removable(f, l, n)}
        ELSE {}

rmtree(f, l, path) ==
    LET gone == rmtree_removed(f, l, path)
    IN  [dirs |-> f.dirs \ gone, files |-> f.files \ gone]

----------------------------------------------------------------------------
\* git-sandbox-agent/tools/sandbox_manager.py

\* a cleanup_sandbox with the existence test the wrong way round
cleanup_sandbox_inverted(f, l, path) ==
    IF ~exists(f, path) /\ is_relative_to(path, ROOT_SANDBOX_DIR)
    THEN [fs |-> rmtree(f, l, path), log |-> "info_cleaning_up"]
    ELSE IF ~is_relative_to(path, ROOT_SANDBOX_DIR)
    THEN [fs |-> f, log |-> "warning_outside_root"]
    ELSE [fs |-> f, log |-> "warning_non_existent"]

\* cleanup_sandbox(path): the filesystem afterwards and the line logged
cleanup_sandbox(f, l, path) ==
    IF exists(f, path) /\ is_relative_to(path, ROOT_SANDBOX_DIR)
    THEN [fs |-> rmtree(f, l, path), log |-> "info_cleaning_up"]
    ELSE IF ~is_relative_to(path, ROOT_SANDBOX_DIR)
    THEN [fs |-> f, log |-> "warning_outside_root"]
    ELSE [fs |-> f, log |-> "warning_non_existent"]

\* git-clone-agent/tools/sandbox_manager.py
cleanup_clone_directory(f, l, path) ==
    IF exists(f, path) /\ is_relative_to(path, ROOT_SANDBOX_DIR)
    THEN [fs |-> rmtree(f, l, path), log |-> "info_cleaning_up"]
    ELSE IF ~is_relative_to(path, ROOT_SANDBOX_DIR)
    THEN [fs |-> f, log |-> "warning_outside_root"]
    ELSE [fs |-> f, log |-> "warning_non_existent"]

\* the record kept of a call: what it removed, what it logged, whether it
\* raised, whether the path was there before, how many calls came before it
Call(op, path, before, after, log, raised) ==
    [op |-> op, path |-> path,
     removed |-> Nodes(before) \ Nodes(after),
     prev_removed |-> last.removed,
     target |-> Resolve(before, path),
     log |-> log, raised |-> raised,
     gone_before |-> ~exists(before, path),
     again |-> (last.op = op /\ (last.path = path \/ op = "cleanup")),
     n |-> last.n + 1]

CallCleanupSandbox ==
    /\ prog = "manager"
    /\ last.n < MaxCalls
    /\ LET r == cleanup_sandbox(fs, locked, handle)
       IN  /\ fs' = r.fs
           /\ last' = Call("cleanup_sandbox", handle, fs, r.fs, r.log, FALSE)
    /\ UNCHANGED <<extvars, invocations, created, prog, locked, handle, agent, wfvars>>

CallCleanupCloneDirectory ==
    /\ prog = "manager"
    /\ last.n < MaxCalls
    /\ LET r == cleanup_clone_directory(fs, locked, handle)
       IN  /\ fs' = r.fs
           /\ last' = Call("cleanup_clone_directory", handle, fs, r.fs, r.log, FALSE)
    /\ UNCHANGED <<extvars, invocations, created, prog, locked, handle, agent, wfvars>>

\* an initialisation that keeps what the root holds
initialize_sandbox_root_keep(f, l) ==
    [fs |-> [dirs |-> f.dirs \cup {ROOT_SANDBOX_DIR}, files |-> f.files],
     raised |-> FALSE]

\* initialize_sandbox_root(): [fs, raised].  An existing root has its direct
\* children purged: rmtree(ignore_errors=True) for a directory, unlink() for
\* a file, which raises when the file cannot be removed; a missing root is
\* created.
initialize_sandbox_root(f, l) ==
    IF ROOT_SANDBOX_DIR \in Nodes(f)
    THEN LET kids == {n \in Nodes(f) : Parent(n) = ROOT_SANDBOX_DIR /\ Len(n) > 1}
             gone == UNION {rmtree_removed(f, l, k) : k \in kids \cap f.dirs}
                     \cup ((kids \cap f.files) \ l)
         IN  [fs |-> [dirs |-> f.dirs \ gone, files |-> f.files \ gone],
              raised |-> (kids \cap f.files \cap l) # {}]
    ELSE [fs |-> [dirs |-> f.dirs \cup {ROOT_SANDBOX_DIR}, files |-> f.files],
          raised |-> FALSE]

\* create_sandbox(): [fs, path, raised], id standing for str(uuid.uuid4())[:8]
create_sandbox(f, l, id) ==
    LET r == initialize_sandbox_root(f, l)
        path == ROOT_SANDBOX_DIR \o <<id>>
    IN  IF r.raised THEN [fs |-> r.fs, path |-> None, raised |-> TRUE]
        ELSE [fs |-> [dirs |-> r.fs.dirs \cup {path}, files |-> r.fs.files],
              path |-> path, raised |-> FALSE]

----------------------------------------------------------------------------
\* git-sandbox-agent/core/agent.py: GitSandboxAgent

\* os.makedirs(path, exist_ok=True)
makedirs(f, path) ==
    [dirs |-> f.dirs \cup {SubSeq(path, 1, i) : i \in 1..Len(path)}, files |-> f.files]

IsEmptyDir(f, path) == path \in f.dirs /\ ~\E n \in Nodes(f) : Parent(n) = path /\ Len(n) > Len(path)

\* what a successful "git clone <url> ." leaves in the directory
Cloned(f, path) == [dirs |-> f.dirs, files |-> f.files \cup {path \o <<"f">>}]

\* a cleanup that does not tell a custom working directory from a sandbox
agent_cleanup_any(f, l, a) ==
    IF a.sandbox_path # None
    THEN LET r == cleanup_sandbox(f, l, a.sandbox_path)
         IN  [fs |-> r.fs, sandbox_path |-> None, log |-> r.log]
    ELSE [fs |-> f, sandbox_path |-> a.sandbox_path, log |-> "none"]

\* subprocess.run(["git"] + args, cwd=cwd) of run_git_command: the invocation,
\* and whether cwd was an existing empty directory when it was made
GitInvocation(args, cwd, f) ==
    [argv |-> <<"git">> \o args, cwd |-> cwd, cwd_empty |-> IsEmptyDir(f, cwd)]

NoBranch == "None"
Branches == {NoBranch, "", "feature-branch"}

\* the arguments clone_repo of git-sandbox-agent builds ("if branch:")
clone_args(repo_url, branch) ==
    IF branch # NoBranch /\ branch # ""
    THEN <<"clone", repo_url, ".", "--branch", branch>>
    ELSE <<"clone", repo_url, ".">>

\* a variant of cleanup() that leaves everything as it is
agent_cleanup_keep(f, l, a) ==
    [fs |-> f, sandbox_path |-> a.sandbox_path, log |-> "none"]

\* GitSandboxAgent.cleanup(): [fs, sandbox_path, log]
agent_cleanup(f, l, a) ==
    IF a.sandbox_path # None /\ a.working_dir = None
    THEN LET r == cleanup_sandbox(f, l, a.sandbox_path)
         IN  [fs |-> r.fs, sandbox_path |-> None, log |-> r.log]
    ELSE IF a.sandbox_path # None /\ a.working_dir # None
    THEN [fs |-> f, sandbox_path |-> None, log |-> "info_skipping_custom_dir"]
    ELSE [fs |-> f, sandbox_path |-> a.sandbox_path, log |-> "none"]

\* GitSandboxAgent.setup_sandbox(repo_url): the sandbox is the custom working
\* directory or a fresh one of the manager; a failed clone cleans up and
\* re-raises
SetupSandbox ==
    /\ prog = "sandbox_agent"
    /\ last.n < MaxCalls
    /\ \E id \in SandboxIds, clone_ok \in BOOLEAN, branch \in {NoBranch, "feature-branch"} :
        LET made == IF agent.working_dir # None
                    THEN [fs |-> makedirs(fs, agent.working_dir),
                          path |-> agent.working_dir, raised |-> FALSE]
                    ELSE create_sandbox(fs, locked, id)
        IN  /\ created' = IF agent.working_dir = None /\ ~made.raised
                           THEN created \cup {made.path} ELSE created
            /\ invocations' = IF made.raised THEN <<>>
                               ELSE <<GitInvocation(clone_args("url", branch),
                                                    made.path, made.fs)>>
            /\ IF made.raised
               THEN /\ fs' = made.fs
                    /\ agent' = agent
                    /\ last' = Call("setup_sandbox", None, fs, made.fs, "none", TRUE)
               ELSE IF clone_ok /\ IsEmptyDir(made.fs, made.path)
               THEN /\ fs' = Cloned(made.fs, made.path)
                    /\ agent' = [agent EXCEPT !.sandbox_path = made.path]
                    /\ last' = Call("setup_sandbox", made.path, fs, fs', "info_cloned", FALSE)
               ELSE LET c == agent_cleanup(made.fs, locked,
                                           [agent EXCEPT !.sandbox_path = made.path])
                    IN  /\ fs' = c.fs
                        /\ agent' = [agent EXCEPT !.sandbox_path = c.sandbox_path]
                        /\ last' = Call("setup_sandbox", made.path, fs, c.fs, c.log, TRUE)
    /\ UNCHANGED <<extvars, prog, locked, handle, wfvars>>

AgentCleanup ==
    /\ prog = "sandbox_agent"
    /\ last.n < MaxCalls
    /\ LET c == agent_cleanup(fs, locked, agent)
       IN  /\ fs' = c.fs
           /\ agent' = [agent EXCEPT !.sandbox_path = c.sandbox_path]
           /\ last' = Call("cleanup", agent.sandbox_path, fs, c.fs, c.log, FALSE)
    /\ UNCHANGED <<extvars, invocations, created, prog, locked, handle, wfvars>>

----------------------------------------------------------------------------
\* git-clone-agent/tools/sandbox_manager.py and git-clone-agent/core/agent.py

\* the directory names create_clone_directory builds: "repo-<name>" from the
\* last segment of the repository name, or "repo-<uuid8>"
CloneDirNames == {"repo-1", "repo-2"}

\* initialize_sandbox_root() of the clone agent's manager: [fs, raised]
clone_initialize_sandbox_root(f, l) ==
    IF ROOT_SANDBOX_DIR \in Nodes(f)
    THEN LET kids == {n \in Nodes(f) : Parent(n) = ROOT_SANDBOX_DIR /\ Len(n) > 1}
             gone == UNION {rmtree_removed(f, l, k) : k \in kids \cap f.dirs}
                     \cup ((kids \cap f.files) \ l)
         IN  [fs |-> [dirs |-> f.dirs \ gone, files |-> f.files \ gone],
              raised |-> (kids \cap f.files \cap l) # {}]
    ELSE [fs |-> [dirs |-> f.dirs \cup {ROOT_SANDBOX_DIR}, files |-> f.files],
          raised |-> FALSE]

\* a call of initialize_sandbox_root() of either sandbox manager on its own
CallInitializeSandboxRoot ==
    /\ prog = "manager"
    /\ last.n < MaxCalls
    /\ \E clone \in BOOLEAN :
        LET r == IF clone THEN clone_initialize_sandbox_root(fs, locked)
                 ELSE initialize_sandbox_root(fs, locked)
        IN  /\ fs' = r.fs
            /\ last' = Call("initialize_sandbox_root", ROOT_SANDBOX_DIR, fs, r.fs,
                            "none", r.raised)
    /\ UNCHANGED <<extvars, invocations, created, prog, locked, handle, agent, wfvars>>

\* a create_clone_directory that accepts a directory that is still there
\* (os.makedirs(path, exist_ok=True))
create_clone_directory_exist_ok(f, l, l2, dir_name) ==
    LET r == clone_initialize_sandbox_root(f, l)
        path == ROOT_SANDBOX_DIR \o <<dir_name>>
        f1 == rmtree(r.fs, l, path)
    IN  [fs |-> [dirs |-> f1.dirs \cup {path}, files |-> f1.files],
         path |-> path, raised |-> FALSE,
         attempts |-> IF exists(r.fs, path) THEN 1 ELSE 0]

\* create_clone_directory(repo_name): [fs, path, raised, attempts].  l are the
\* nodes that cannot be removed at first, l2 those that still cannot be
\* removed after the sleep before the retry; attempts counts the rmtree calls
\* on the path; os.makedirs(path, exist_ok=False) raises when the path is
\* still there
create_clone_directory(f, l, l2, dir_name) ==
    LET r == clone_initialize_sandbox_root(f, l)
        path == ROOT_SANDBOX_DIR \o <<dir_name>>
        first == exists(r.fs, path)
        f1 == IF first THEN rmtree(r.fs, l, path) ELSE r.fs
        retry == first /\ exists(f1, path)
        f2 == IF retry THEN rmtree(f1, l2, path) ELSE f1
        attempts == IF retry THEN 2 ELSE IF first THEN 1 ELSE 0
    IN  IF r.raised
        THEN [fs |-> r.fs, path |-> None, raised |-> TRUE, attempts |-> 0]
        ELSE IF exists(f2, path)
        THEN [fs |-> f2, path |-> None, raised |-> TRUE, attempts |-> attempts]
        ELSE [fs |-> [dirs |-> f2.dirs \cup {path}, files |-> f2.files],
              path |-> path, raised |-> FALSE, attempts |-> attempts]

\* GitCloneAgent.clone_repository: [fs, agent, made].  The clone directory is
\* the custom working directory or a fresh one of the manager; clone_repo
\* refuses a missing or non-empty target; out is what git does: "ok",
\* "clone_fail", or "checkout_fail" (cloned, but the branch checkout failed).
\* Every exception is caught and reported as success = False.
clone_into(dir, a, out) ==
    LET target_ok == ~dir.raised /\ IsEmptyDir(dir.fs, dir.path)
        cloned == target_ok /\ out \in {"ok", "checkout_ok", "checkout_fail"}
        ok == target_ok /\ out \in {"ok", "checkout_ok"}
    IN  [fs |-> IF cloned THEN Cloned(dir.fs, dir.path) ELSE dir.fs,
         agent |-> [a EXCEPT !.clone_dir = IF dir.raised THEN @ ELSE dir.path,
                             !.success = ok,
                             !.error_message = IF ok THEN @ ELSE <<"error">>],
         invocations |->
             IF ~target_ok THEN <<>>
             ELSE <<GitInvocation(<<"clone", "url", ".">>, dir.path, dir.fs)>>
                  \o IF out \in {"checkout_ok", "checkout_fail"}
                     THEN <<GitInvocation(<<"checkout", "feature-branch">>, dir.path,
                                          Cloned(dir.fs, dir.path))>>
                     ELSE <<>>,
         made |-> IF a.working_dir = None /\ ~dir.raised THEN {dir.path} ELSE {},
         attempts |-> dir.attempts]

clone_repository(f, l, l2, a, dir_name, out) ==
    clone_into(IF a.working_dir # None
               THEN [fs |-> f, path |-> a.working_dir, raised |-> FALSE, attempts |-> 0]
               ELSE create_clone_directory(f, l, l2, dir_name),
               a, out)

\* an __exit__ that cleans up only with a custom working directory
clone_exit_custom_only(f, l, a) ==
    IF a.clone_dir # None /\ a.working_dir # None
    THEN cleanup_clone_directory(f, l, a.clone_dir)
    ELSE [fs |-> f, log |-> "none"]

\* GitCloneAgent.__exit__: [fs, log]
clone_exit(f, l, a) ==
    IF a.clone_dir # None /\ a.working_dir = None
    THEN cleanup_clone_directory(f, l, a.clone_dir)
    ELSE [fs |-> f, log |-> "none"]

CloneRepository ==
    /\ prog = "clone_agent"
    /\ last.n < MaxCalls
    /\ last.op # "__exit__"
    /\ \E dir_name \in CloneDirNames,
          out \in {"ok", "clone_fail", "checkout_ok", "checkout_fail"},
          l2 \in SUBSET locked :
          LET c == clone_repository(fs, locked, l2, clone_agent, dir_name, out)
          IN  /\ fs' = c.fs
              /\ clone_agent' = c.agent
              /\ created' = created \cup c.made
              /\ invocations' = c.invocations
              /\ last' = Call("clone_repository", c.agent.clone_dir, fs, c.fs,
                              IF c.agent.success THEN "info_cloned" ELSE "error", FALSE)
    /\ UNCHANGED <<toolvars, runs, patch, wire, parsed, prog, locked, handle, agent, wfvars>>

\* leaving the with-block
CloneExit ==
    /\ prog = "clone_agent"
    /\ last.op # "__exit__"
    /\ LET c == clone_exit(fs, locked, clone_agent)
       IN  /\ fs' = c.fs
           /\ last' = Call("__exit__", clone_agent.clone_dir, fs, c.fs, c.log, FALSE)
    /\ UNCHANGED <<extvars, invocations, created, prog, locked, handle, agent, wfvars>>

----------------------------------------------------------------------------
\* Concurrent runs under the one root both managers share: each run creates
\* its sandbox with one of the managers, clones into it and cleans it up.

Runs == {1, 2}

RunCreateSandbox ==
    /\ prog = "two_runs"
    /\ last.n < MaxCalls
    /\ \E r \in Runs, id \in SandboxIds :
          LET made == create_sandbox(fs, locked, id)
          IN  /\ runs[r] = None
              /\ fs' = made.fs
              /\ runs' = [runs EXCEPT ![r] = made.path]
              /\ last' = Call("create_sandbox", made.path, fs, made.fs,
                              IF made.raised THEN "error" ELSE "info_created",
                              made.raised)
    /\ UNCHANGED <<toolvars, invocations, clone_agent, patch, wire, parsed, created, prog, locked, handle, agent, wfvars>>

RunCreateCloneDirectory ==
    /\ prog = "two_runs"
    /\ last.n < MaxCalls
    /\ \E r \in Runs, dir_name \in CloneDirNames, l2 \in SUBSET locked :
          LET made == create_clone_directory(fs, locked, l2, dir_name)
          IN  /\ runs[r] = None
              /\ fs' = made.fs
              /\ runs' = [runs EXCEPT ![r] = made.path]
              /\ last' = [attempts |-> made.attempts,
                          requested |-> ROOT_SANDBOX_DIR \o <<dir_name>>]
                         @@ Call("create_clone_directory", made.path, fs, made.fs,
                                 IF made.raised THEN "error" ELSE "info_created",
                                 made.raised)
    /\ UNCHANGED <<toolvars, invocations, clone_agent, patch, wire, parsed, created, prog, locked, handle, agent, wfvars>>

\* the run clones into its sandbox
RunClone ==
    /\ prog = "two_runs"
    /\ \E r \in Runs :
          /\ runs[r] # None
          /\ IsEmptyDir(fs, runs[r])
          /\ fs' = Cloned(fs, runs[r])
          /\ last' = Call("clone_repo", runs[r], fs, fs', "info_cloned", FALSE)
    /\ UNCHANGED <<extvars, invocations, created, prog, locked, handle, agent, wfvars>>

RunCleanup ==
    /\ prog = "two_runs"
    /\ \E r \in Runs :
          LET c == cleanup_sandbox(fs, locked, runs[r])
          IN  /\ runs[r] # None
              /\ fs' = c.fs
              /\ runs' = [runs EXCEPT ![r] = None]
              /\ last' = Call("cleanup_sandbox", runs[r], fs, c.fs, c.log, FALSE)
    /\ UNCHANGED <<toolvars, invocations, clone_agent, patch, wire, parsed, created, prog, locked, handle, agent, wfvars>>

----------------------------------------------------------------------------
\* git-orchestrator-agent/core/agent.py: GitOrchestratorAgent

AgentNames == {"git_clone_agent", "git_branch_agent", "git_commit_agent",
               "git_pr_agent", "git_sandbox_agent"}

\* the agent classes src/ holds; git-branch-agent and git-pr-agent have none
RepoAgents == {"git_clone_agent", "git_commit_agent", "git_sandbox_agent"}

\* the parameters (besides self) each class of the repository requires and
\* accepts, for its constructor "__init__" and its public methods
GitSandboxAgentSignatures ==
    {[agent |-> "git_sandbox_agent", method |-> "__init__",
      required |-> {}, optional |-> {"working_dir"}],
     [agent |-> "git_sandbox_agent", method |-> "setup_sandbox",
      required |-> {"repo_url"}, optional |-> {"branch"}],
     [agent |-> "git_sandbox_agent", method |-> "run_validation",
      required |-> {}, optional |-> {"test_command", "linter_command", "custom_scripts"}],
     [agent |-> "git_sandbox_agent", method |-> "generate_report",
      required |-> {}, optional |-> {}],
     [agent |-> "git_sandbox_agent", method |-> "cleanup",
      required |-> {}, optional |-> {}]}

GitCloneAgentSignatures ==
    {[agent |-> "git_clone_agent", method |-> "__init__",
      required |-> {}, optional |-> {"working_dir"}],
     [agent |-> "git_clone_agent", method |-> "clone_repository",
      required |-> {"repo_url"}, optional |-> {"branch", "repo_name", "git_config"}],
     [agent |-> "git_clone_agent", method |-> "get_status",
      required |-> {}, optional |-> {}]}

GitCommitAgentSignatures ==
    {[agent |-> "git_commit_agent", method |-> "__init__",
      required |-> {"repo_dir"}, optional |-> {}],
     [agent |-> "git_commit_agent", method |-> "stage_files",
      required |-> {"files"}, optional |-> {}],
     [agent |-> "git_commit_agent", method |-> "stage_all",
      required |-> {}, optional |-> {}],
     [agent |-> "git_commit_agent", method |-> "commit",
      required |-> {"message"}, optional |-> {}],
     [agent |-> "git_commit_agent", method |-> "commit_all",
      required |-> {"message"}, optional |-> {}],
     [agent |-> "git_commit_agent", method |-> "create_branch",
      required |-> {"branch_name"}, optional |-> {"base_branch"}],
     [agent |-> "git_commit_agent", method |-> "checkout_branch",
      required |-> {"branch_name"}, optional |-> {}],
     [agent |-> "git_commit_agent", method |-> "push",
      required |-> {}, optional |-> {"branch", "remote"}],
     [agent |-> "git_commit_agent", method |-> "get_status",
      required |-> {}, optional |-> {}]}

\* the classes _load_agents can find under src/
RepoSignatures ==
    GitSandboxAgentSignatures \cup GitCloneAgentSignatures \cup GitCommitAgentSignatures

\* Python binds a call when the method exists, every required parameter is
\* passed and nothing else than the declared parameters is passed
Binds(a, method, passed) ==
    \E sig \in RepoSignatures :
        /\ sig.agent = a /\ sig.method = method
        /\ sig.required \subseteq passed
        /\ passed \subseteq sig.required \cup sig.optional

\* the calls run_git_workflow makes: self.agents[a]() and then a method
RepoAccepts(a, method, passed) ==
    Binds(a, "__init__", {}) /\ Binds(a, method, passed)

\* What a call of an agent can come to.  The class of the repository raises
\* TypeError or AttributeError when the call does not bind; a class that
\* offers the interface run_git_workflow calls runs git, the network and the
\* filesystem and may succeed, report failure or raise.
Outcomes(a, method, passed, normal) ==
    IF impl[a] = "repo" /\ ~RepoAccepts(a, method, passed)
    THEN {"raise"}
    ELSE normal

NoError == "None"

NewResult == [success |-> FALSE, steps |-> <<>>, error |-> NoError, pr_url |-> "None"]

Entry(step, success) == [step |-> step, success |-> success]

\* result["steps"].append(...), at the front in the variant
PrependStep(res, step, success) ==
    [res EXCEPT !.steps = <<Entry(step, success)>> \o @]

AppendStep(res, step, success) ==
    [res EXCEPT !.steps = Append(@, Entry(step, success))]

Issue(op, ok) == Append(trace, [op |-> op, ok |-> ok])

\* a variant of the return inside the try block that records no error
ReturnSilently(res, msg) == [pc |-> "finally", result |-> res]

\* "return result" with an error message inside the try block: the finally
\* block runs next
ReturnError(res, msg) == [pc |-> "finally", result |-> [res EXCEPT !.error = msg]]

\* an exception that leaves the function
Escape(res, msg) == [pc |-> "raised", result |-> res]

\* except Exception as e: the error is recorded, the finally block runs next
Except(res, msg) == [pc |-> "finally", result |-> [res EXCEPT !.error = msg]]

\* a failed step that does not return
FallThrough(res, msg, next) == [pc |-> next, result |-> [res EXCEPT !.error = msg]]

\* a step reported failure: the error is recorded and the function returns
StepFailed(res, msg, next) == ReturnError(res, msg)

\* Step 1: create the sandbox
Step1CreateSandbox ==
    /\ prog = "run_git_workflow" /\ pc = "step1"
    /\ IF "git_sandbox_agent" \in loaded
       THEN \E out \in Outcomes("git_sandbox_agent", "setup_sandbox", {}, {"ok", "raise"}),
               id \in SandboxIds :
               LET made == create_sandbox(fs, locked, id)
               IN  IF out = "ok" /\ ~made.raised
                   THEN /\ fs' = made.fs
                        /\ sandbox_path' = made.path
                        /\ result' = AppendStep(result, "create_sandbox", TRUE)
                        /\ pc' = "step2"
                        /\ trace' = Issue("create_sandbox", TRUE)
                   ELSE LET e == Except(result, "Workflow error")
                        IN  /\ fs' = IF out = "ok" THEN made.fs ELSE fs
                            /\ result' = e.result
                            /\ pc' = e.pc
                            /\ trace' = Issue("create_sandbox", FALSE)
                            /\ UNCHANGED sandbox_path
       ELSE LET r == ReturnError(result, "GitSandboxAgent not available")
            IN  /\ result' = r.result
                /\ pc' = r.pc
                /\ UNCHANGED <<fs, sandbox_path, trace>>
    /\ UNCHANGED <<extvars, invocations, created, prog, locked, mgrvars, loaded, impl>>

\* a successful clone that goes on past the branch step
StepOkSkip(res, step, next) ==
    [pc |-> IF next = "step3" THEN "step4" ELSE next,
     result |-> AppendStep(res, step, TRUE)]

\* a step succeeded: its entry is appended and the next step follows
StepOk(res, step, next) == [pc |-> next, result |-> AppendStep(res, step, TRUE)]

\* a variant of the last step that leaves result["success"] as it was
CompletedUnmarked(res, step) ==
    [pc |-> "finally",
     result |-> [AppendStep(res, step, TRUE) EXCEPT !.pr_url = "html_url"]]

\* the last step succeeded: result["pr_url"] = ...; result["success"] = True;
\* the try block ends and the finally block runs
Completed(res, step) ==
    [pc |-> "finally",
     result |-> [AppendStep(res, step, TRUE) EXCEPT !.pr_url = "html_url",
                                                    !.success = TRUE]]

\* Step 2: clone the repository into the sandbox
Step2Clone ==
    /\ prog = "run_git_workflow" /\ pc = "step2"
    /\ IF "git_clone_agent" \in loaded
       THEN \E out \in Outcomes("git_clone_agent", "clone_repository",
                                {"repo_url", "working_dir"},
                                {"ok", "fail", "raise"}) :
               LET r == IF out = "ok" THEN StepOk(result, "clone_repo", "step3")
                        ELSE IF out = "fail"
                        THEN StepFailed(result, "Failed to clone repository", "step3")
                        ELSE Except(result, "Workflow error")
               IN  /\ result' = r.result
                   /\ pc' = r.pc
                   /\ trace' = Issue("clone", out = "ok")
                   /\ fs' = IF out = "ok" THEN Cloned(fs, sandbox_path) ELSE fs
       ELSE LET r == ReturnError(result, "GitCloneAgent not available")
            IN  /\ result' = r.result
                /\ pc' = r.pc
                /\ UNCHANGED <<fs, trace>>
    /\ UNCHANGED <<extvars, invocations, created, prog, locked, mgrvars, loaded, impl, sandbox_path>>

\* Step 3: create the branch
Step3Branch ==
    /\ prog = "run_git_workflow" /\ pc = "step3"
    /\ IF "git_branch_agent" \in loaded
       THEN \E out \in Outcomes("git_branch_agent", "create_branch",
                                {"branch_name", "repo_dir"},
                                {"ok", "fail", "raise"}) :
               LET r == IF out = "ok" THEN StepOk(result, "create_branch", "step4")
                        ELSE IF out = "fail"
                        THEN StepFailed(result, "Failed to create branch", "step4")
                        ELSE Except(result, "Workflow error")
               IN  /\ result' = r.result
                   /\ pc' = r.pc
                   /\ trace' = Issue("branch", out = "ok")
                   /\ fs' = fs
       ELSE LET r == ReturnError(result, "GitBranchAgent not available")
            IN  /\ result' = r.result
                /\ pc' = r.pc
                /\ UNCHANGED <<fs, trace>>
    /\ UNCHANGED <<extvars, invocations, created, prog, locked, mgrvars, loaded, impl, sandbox_path>>

\* Step 4: write test_file.txt and commit
Step4Commit ==
    /\ prog = "run_git_workflow" /\ pc = "step4"
    /\ IF "git_commit_agent" \in loaded
       THEN \E out \in Outcomes("git_commit_agent", "commit_changes",
                                {"repo_dir", "files_to_modify", "commit_message"},
                                {"ok", "fail", "raise"}) :
               LET r == IF out = "ok" THEN StepOk(result, "commit_changes", "step5")
                        ELSE IF out = "fail"
                        THEN StepFailed(result, "Failed to commit changes", "step5")
                        ELSE Except(result, "Workflow error")
               IN  /\ result' = r.result
                   /\ pc' = r.pc
                   /\ trace' = Issue("commit", out = "ok")
                   /\ fs' = fs
       ELSE LET r == ReturnError(result, "GitCommitAgent not available")
            IN  /\ result' = r.result
                /\ pc' = r.pc
                /\ UNCHANGED <<fs, trace>>
    /\ UNCHANGED <<extvars, invocations, created, prog, locked, mgrvars, loaded, impl, sandbox_path>>

\* Step 5: push the branch and create the pull request
Step5PullRequest ==
    /\ prog = "run_git_workflow" /\ pc = "step5"
    /\ IF "git_pr_agent" \in loaded
       THEN \E out \in Outcomes("git_pr_agent", "create_pull_request",
                                {"repo_dir", "base_branch", "head_branch", "title",
                                 "description", "github_token"},
                                {"ok", "fail", "raise"}) :
               LET r == IF out = "ok" THEN Completed(result, "create_pr")
                        ELSE IF out = "fail"
                        THEN StepFailed(result, "Failed to create pull request", "finally")
                        ELSE Except(result, "Workflow error")
               IN  /\ result' = r.result
                   /\ pc' = r.pc
                   /\ trace' = Issue("push", out = "ok")
                   /\ fs' = fs
       ELSE LET r == ReturnError(result, "GitPrAgent not available")
            IN  /\ result' = r.result
                /\ pc' = r.pc
                /\ UNCHANGED <<fs, trace>>
    /\ UNCHANGED <<extvars, invocations, created, prog, locked, mgrvars, loaded, impl, sandbox_path>>

\* finally: the sandbox is cleaned up when one was created
Finally ==
    /\ prog = "run_git_workflow" /\ pc = "finally"
    /\ IF sandbox_path # None /\ "git_sandbox_agent" \in loaded
       THEN \E out \in Outcomes("git_sandbox_agent", "cleanup_sandbox", {}, {"ok", "raise"}) :
               /\ fs' = IF out = "ok" THEN cleanup_sandbox(fs, locked, sandbox_path).fs
                        ELSE fs
               /\ result' = AppendStep(result, "cleanup_sandbox", out = "ok")
               /\ trace' = Issue("cleanup", out = "ok")
       ELSE UNCHANGED <<fs, result, trace>>
    /\ pc' = "returned"
    /\ UNCHANGED <<extvars, invocations, created, prog, locked, mgrvars, loaded, impl, sandbox_path>>

----------------------------------------------------------------------------
\* git-orchestrator-agent/full_workflow_example.py: main and the workflow
\* steps it calls

\* setup_workflow(), before the try block: the configuration loader is
\* imported when it is called, and an import error leaves main
MainSetup ==
    /\ prog = "main" /\ pc = "setup"
    /\ \E out \in {"ok", "raise"} :
          pc' = IF out = "ok" THEN "create_sandbox" ELSE "raised"
    /\ UNCHANGED <<extvars, invocations, created, prog, fs, locked, mgrvars, loaded, impl, result, sandbox_path, trace>>

\* create_sandbox_environment(): step1_create_sandbox.create_sandbox returns
\* the path, or None when anything raised; without a path main returns
MainCreateSandbox ==
    /\ prog = "main" /\ pc = "create_sandbox"
    /\ \E out \in {"ok", "raise"}, id \in SandboxIds :
          LET made == create_sandbox(fs, locked, id)
          IN  IF out = "ok" /\ ~made.raised
              THEN /\ fs' = made.fs
                   /\ sandbox_path' = made.path
                   /\ trace' = Issue("create_sandbox", TRUE)
                   /\ pc' = "clone"
              ELSE /\ fs' = IF out = "ok" THEN made.fs ELSE fs
                   /\ sandbox_path' = None
                   /\ trace' = Issue("create_sandbox", FALSE)
                   /\ pc' = "finally"
    /\ UNCHANGED <<extvars, invocations, created, prog, locked, mgrvars, loaded, impl, result>>

\* where main goes on after a failed clone: it returns
MainCloneFailed == "finally"

\* where main goes on after apply_code_changes, whatever it returned:
\* "Failed to apply code changes. Continuing with workflow."
MainAfterCodeChanges(ok) == "commit"

\* clone_repository(): step2_clone_repository.clone_repository, and on
\* failure cleanup_on_failure(sandbox_path) before main returns
MainClone ==
    /\ prog = "main" /\ pc = "clone"
    /\ \E ok \in BOOLEAN :
          IF ok
          THEN /\ fs' = Cloned(fs, sandbox_path)
               /\ trace' = Issue("clone", TRUE)
               /\ pc' = "apply_code_changes"
          ELSE /\ fs' = cleanup_sandbox(fs, locked, sandbox_path).fs
               /\ trace' = Append(Issue("clone", FALSE), [op |-> "cleanup", ok |-> TRUE])
               /\ pc' = MainCloneFailed
    /\ UNCHANGED <<extvars, invocations, created, prog, locked, mgrvars, loaded, impl, result, sandbox_path>>

\* Step 4 of main creates no branch (branch_success = True is a placeholder).
\* apply_code_changes(): True or False, never an exception
MainApplyCodeChanges ==
    /\ prog = "main" /\ pc = "apply_code_changes"
    /\ \E ok \in BOOLEAN :
          /\ trace' = Issue("mutate", ok)
          /\ pc' = MainAfterCodeChanges(ok)
    /\ UNCHANGED <<extvars, invocations, created, prog, fs, locked, mgrvars, loaded, impl, result, sandbox_path>>

\* step3_commit_changes.commit_changes: after constructing the agent it
\* assigns sys.path = path_copy, a name the function never defines; the
\* NameError is caught by its except clause, which returns (False, None)
\* before a branch, a commit or a push is attempted
step3_commit_changes == [success |-> FALSE, commit_hash |-> None]

\* commit_changes(): "Failed to commit changes. Continuing with workflow."
MainCommit ==
    /\ prog = "main" /\ pc = "commit"
    /\ trace' = Issue("commit", step3_commit_changes.success)
    /\ pc' = "wait"
    /\ UNCHANGED <<extvars, invocations, created, prog, fs, locked, mgrvars, loaded, impl, result, sandbox_path>>

\* wait_before_cleanup(5)
MainWait ==
    /\ prog = "main" /\ pc = "wait"
    /\ pc' = "finally"
    /\ UNCHANGED <<extvars, invocations, created, prog, fs, locked, mgrvars, loaded, impl, result, sandbox_path, trace>>

\* finally: cleanup_sandbox(sandbox_path) if a sandbox was created
MainFinally ==
    /\ prog = "main" /\ pc = "finally"
    /\ IF sandbox_path # None
       THEN /\ fs' = cleanup_sandbox(fs, locked, sandbox_path).fs
            /\ trace' = Issue("cleanup", TRUE)
       ELSE UNCHANGED <<fs, trace>>
    /\ pc' = "returned"
    /\ UNCHANGED <<extvars, invocations, created, prog, locked, mgrvars, loaded, impl, result, sandbox_path>>

----------------------------------------------------------------------------
\* Initial filesystems: the root with or without a sandbox in it, a directory
\* outside the root, files in either.

DirUniverse == {ROOT_SANDBOX_DIR, ROOT_SANDBOX_DIR \o <<"sandbox-1">>, <<"home">>}
FileUniverse == {ROOT_SANDBOX_DIR \o <<"sandbox-1", "f">>, <<"home", "f">>}

WellFormed(f) ==
    /\ f.dirs \cap f.files = {}
    /\ \A n \in Nodes(f) : Len(n) > 1 => Parent(n) \in f.dirs

InitFs ==
    {f \in [dirs : SUBSET DirUniverse, files : SUBSET FileUniverse] : WellFormed(f)}

NoCall == [op |-> "none", path |-> None, removed |-> {}, prev_removed |-> {},
           target |-> ENOENT,
           log |-> "none", raised |-> FALSE, gone_before |-> FALSE, again |-> FALSE,
           n |-> 0]

\* GitSandboxAgent.__init__(working_dir)
WorkingDirs == {None, <<"home">>, ROOT_SANDBOX_DIR \o <<"sandbox-1">>}
NewAgent(working_dir) == [sandbox_path |-> None, working_dir |-> working_dir]

\* GitCloneAgent.__init__(working_dir)
NewCloneAgent(working_dir) ==
    [working_dir |-> working_dir, clone_dir |-> None, success |-> FALSE,
     error_message |-> None]

IdleClone == clone_agent = NewCloneAgent(None)
IdleRuns == runs = [r \in Runs |-> None]
IdlePatch == patch = <<>> /\ wire = <<>> /\ parsed = <<>>

NoToolCall == [op |-> "none", n |-> 0]
NoReturn == [raised |-> FALSE, value |-> None, error |-> None]
EmptyRepo == [dirs |-> {}, files |-> <<>>]
\* GitCommitAgent.__init__: the attributes before any operation
NewCommitAgent ==
    [success |-> FALSE, error_message |-> None, commit_hash |-> None,
     branch_name |-> NoBranch]

\* nothing of the coder, validation and git tools has run
IdleTools ==
    /\ commit_agent = NewCommitAgent
    /\ repo = EmptyRepo /\ existed = {} /\ io_fail = {}
    /\ results = <<>> /\ summary = <<>>
    /\ markers = {} /\ validation_results = <<>> /\ report = <<>>
    /\ invocations = <<>> /\ call = NoToolCall /\ ret = NoReturn

IdleWorkflow ==
    /\ pc = "idle"
    /\ loaded = {}
    /\ impl = [a \in AgentNames |-> "repo"]
    /\ result = NewResult
    /\ sandbox_path = None
    /\ trace = <<>>

\* the files a clone leaves, which may turn out not to be removable
SandboxFiles == {ROOT_SANDBOX_DIR \o <<id, "f">> : id \in SandboxIds}
CloneFiles == {ROOT_SANDBOX_DIR \o <<d, "f">> : d \in CloneDirNames}

\* initial filesystems of the clone agent: the root with or without a
\* directory of an earlier clone, a directory outside the root
CloneDirUniverse == {ROOT_SANDBOX_DIR, ROOT_SANDBOX_DIR \o <<"repo-1">>, <<"home">>}
CloneFileUniverse == {ROOT_SANDBOX_DIR \o <<"repo-1", "f">>, <<"home", "f">>}
InitCloneFs ==
    {f \in [dirs : SUBSET CloneDirUniverse, files : SUBSET CloneFileUniverse] :
        WellFormed(f)}
CloneWorkingDirs == {None, <<"home">>, ROOT_SANDBOX_DIR \o <<"repo-1">>}

\* initial filesystems of the concurrent runs: the root, with or without
\* what an earlier run left in it, and the files that may not be removable
RunsInitFs ==
    {f \in InitFs \cup InitCloneFs : f.dirs = {} \/ ROOT_SANDBOX_DIR \in f.dirs}
RunsLockable ==
    {ROOT_SANDBOX_DIR \o <<"sandbox-1", "f">>, ROOT_SANDBOX_DIR \o <<"repo-1", "f">>}

InitManager ==
    /\ last = NoCall
    /\ IdleWorkflow
    /\ IdleRuns /\ IdlePatch
    /\ IdleTools
    /\ created = {}
    /\ \/ /\ prog = "manager"
          /\ fs \in InitFs
          /\ locked \in SUBSET fs.files
          /\ handle \in CandidatePaths
          /\ agent = NewAgent(None)
          /\ IdleClone
       \/ /\ prog = "sandbox_agent"
          /\ fs \in InitFs
          /\ locked \in SUBSET (fs.files \cup SandboxFiles)
          /\ handle = None
          /\ agent \in {NewAgent(w) : w \in WorkingDirs}
          /\ IdleClone
       \/ /\ prog = "clone_agent"
          /\ fs \in InitCloneFs
          /\ locked \in SUBSET CloneFiles
          /\ handle = None
          /\ agent = NewAgent(None)
          /\ clone_agent \in {NewCloneAgent(w) : w \in CloneWorkingDirs}
       \/ /\ prog = "two_runs"
          /\ fs \in RunsInitFs
          /\ locked \in SUBSET RunsLockable
          /\ handle = None
          /\ agent = NewAgent(None)
          /\ IdleClone

NextManager ==
    \/ CallCleanupSandbox
    \/ CallCleanupCloneDirectory
    \/ CallInitializeSandboxRoot
    \/ SetupSandbox
    \/ AgentCleanup
    \/ CloneRepository
    \/ CloneExit
    \/ RunCreateSandbox
    \/ RunCreateCloneDirectory
    \/ RunClone
    \/ RunCleanup

SpecManager == InitManager /\ [][NextManager]_vars

\* GitOrchestratorAgent.__init__: _load_agents registers the classes it finds
InitOrchestrator ==
    /\ prog = "run_git_workflow"
    /\ pc = "step1"
    /\ loaded \in SUBSET AgentNames
    /\ impl \in [AgentNames -> {"repo", "iface"}]
    /\ \A a \in AgentNames \ RepoAgents : impl[a] = "iface"
    /\ result = NewResult
    /\ sandbox_path = None
    /\ trace = <<>>

InitMain ==
    /\ prog = "main"
    /\ pc = "setup"
    /\ loaded = {}
    /\ impl = [a \in AgentNames |-> "repo"]
    /\ result = NewResult
    /\ sandbox_path = None
    /\ trace = <<>>

InitWorkflow ==
    /\ fs \in InitFs
    /\ locked = {}
    /\ handle = None
    /\ last = NoCall
    /\ agent = NewAgent(None)
    /\ IdleClone /\ IdleRuns /\ IdlePatch
    /\ IdleTools
    /\ created = {}
    /\ (InitOrchestrator \/ InitMain)

NextWorkflow ==
    \/ Step1CreateSandbox
    \/ Step2Clone
    \/ Step3Branch
    \/ Step4Commit
    \/ Step5PullRequest
    \/ Finally
    \/ MainSetup
    \/ MainCreateSandbox
    \/ MainClone
    \/ MainApplyCodeChanges
    \/ MainCommit
    \/ MainWait
    \/ MainFinally

Spec == InitWorkflow /\ [][NextWorkflow]_vars

----------------------------------------------------------------------------
\* coder-agent: the patch text, its decoder and the bundle encoder.
\* A text is a sequence of characters.

NL == "\n"
SP == " "
MARKER == <<"=", "=", "=", SP, "F", "I", "L", "E", ":">>
HEADER_OPEN == MARKER \o <<SP>>
HEADER_CLOSE == <<SP, "=", "=", "=", NL>>
LOOKAHEAD == <<NL>> \o MARKER
Whitespace == {SP, NL}

Least(S) == CHOOSE x \in S : \A y \in S : x <= y
Greatest(S) == CHOOSE x \in S : \A y \in S : x >= y

\* the literal lit stands in t at position i
StartsWithAt(t, i, lit) ==
    /\ i >= 1
    /\ i + Len(lit) - 1 <= Len(t)
    /\ \A k \in 1..Len(lit) : t[i + k - 1] = lit[k]

Contains(t, lit) == \E i \in 1..Len(t) : StartsWithAt(t, i, lit)

\* a strip that leaves the text as it is
no_strip(s) == s

\* str.strip()
strip(s) ==
    LET ks == {k \in 1..Len(s) : s[k] \notin Whitespace}
    IN  IF ks = {} THEN <<>> ELSE SubSeq(s, Least(ks), Greatest(ks))

\* the first newline of t at or after position j, 0 when there is none
LineEnd(t, j) ==
    LET nls == {k \in j..Len(t) : t[k] = NL}
    IN  IF nls = {} THEN 0 ELSE Least(nls)

\* "=== FILE: ([^\n]+) ===\n" matches at position i: the path is at least one
\* character of the line and the line ends with " ==="
HeaderAt(t, i) ==
    /\ StartsWithAt(t, i, HEADER_OPEN)
    /\ LET j  == i + Len(HEADER_OPEN)
           nl == LineEnd(t, j)
       IN  /\ nl # 0
           /\ nl - 4 > j
           /\ StartsWithAt(t, nl - 4, HEADER_CLOSE)

\* (?=\n=== FILE:|$) holds at position k
LookaheadAt(t, k) ==
    \/ StartsWithAt(t, k, LOOKAHEAD)
    \/ k = Len(t) + 1
    \/ k = Len(t) /\ t[k] = NL

\* the match of the pattern at position i: the groups and where it ends;
\* ([\s\S]*?) takes the fewest characters that bring it to the lookahead
Match(t, i) ==
    LET j  == i + Len(HEADER_OPEN)
        nl == LineEnd(t, j)
        e  == Least({k \in (nl + 1)..(Len(t) + 1) : LookaheadAt(t, k)})
    IN  [path |-> SubSeq(t, j, nl - 5), content |-> SubSeq(t, nl + 1, e - 1),
         end |-> e]

\* re.finditer(pattern, response): the non-overlapping matches, left to right
RECURSIVE finditer(_, _)
finditer(t, pos) ==
    LET starts == {i \in pos..Len(t) : HeaderAt(t, i)}
    IN  IF starts = {} THEN <<>>
        ELSE LET m == Match(t, Least(starts))
             IN  <<m>> \o finditer(t, m.end)

\* file_changes[file_path] = content on a dict kept as its items in order
SetItem(d, k, v) ==
    IF \E n \in 1..Len(d) : d[n].path = k
    THEN [n \in 1..Len(d) |-> IF d[n].path = k THEN [path |-> k, content |-> v]
                                               ELSE d[n]]
    ELSE Append(d, [path |-> k, content |-> v])

\* the loop of parse_file_changes over the matches from the n-th on
RECURSIVE FileChanges(_, _, _)
FileChanges(ms, n, d) ==
    IF n > Len(ms) THEN d
    ELSE LET file_path == strip(ms[n].path)
             content   == strip(ms[n].content)
         IN  FileChanges(ms, n + 1,
                         IF file_path # <<>> /\ content # <<>>
                         THEN SetItem(d, file_path, content) ELSE d)

parse_file_changes(response) == FileChanges(finditer(response, 1), 1, <<>>)

\* content.count('\n') + 1
line_count(content) == Cardinality({k \in 1..Len(content) : content[k] = NL}) + 1

max_total_lines == 2000

\* the loop of bundle_code_files over the files from the n-th on
RECURSIVE Bundle(_, _, _, _)
Bundle(files, n, bundled_code, total_lines) ==
    IF n > Len(files) THEN bundled_code
    ELSE LET content == files[n].content
         IN  IF content = <<>> THEN Bundle(files, n + 1, bundled_code, total_lines)
             ELSE IF total_lines + line_count(content) > max_total_lines
             THEN bundled_code
             ELSE Bundle(files, n + 1,
                         bundled_code \o <<NL>> \o HEADER_OPEN \o files[n].path
                             \o <<SP, "=", "=", "=", NL>> \o content \o <<NL>>,
                         total_lines + line_count(content))

bundle_code_files(files) == strip(Bundle(files, 1, <<>>, 0))

\* a response of the model: blocks of a header line and content lines
RECURSIVE JoinLines(_)
JoinLines(lines) ==
    IF lines = <<>> THEN <<>> ELSE Head(lines) \o <<NL>> \o JoinLines(Tail(lines))

RECURSIVE Response(_)
Response(blocks) ==
    IF blocks = <<>> THEN <<>>
    ELSE HEADER_OPEN \o Head(blocks).path \o HEADER_CLOSE
             \o JoinLines(Head(blocks).lines) \o Response(Tail(blocks))

MaxBlocks == 3
MaxFiles == 2

BlockPaths == {<<"a">>, <<"b">>, <<SP>>}
BlockLines == {<<>>, << <<>> >>, << <<"x">> >>, << <<"x">>, <<"y">> >>}
Blocks == [path : BlockPaths, lines : BlockLines]

FilePaths == {<<"a">>, <<"b">>, <<"a", SP, "=", "=", "=">>, <<"a", NL, "b">>}
FileContents ==
    {<<>>, <<"x">>, <<SP, "x">>, <<"x", NL, NL, "y">>,
     <<"x", NL>> \o MARKER, <<"x", NL>> \o HEADER_OPEN \o <<"y">>}
Files == [path : FilePaths, content : FileContents]

\* the model answers: the response is the text of some blocks
Respond ==
    /\ prog = "patch_decode" /\ pc = "patch"
    /\ wire' = Response(patch)
    /\ pc' = "wire"
    /\ UNCHANGED <<toolvars, invocations, clone_agent, runs, patch, parsed, created, prog, fs, locked,
                   mgrvars, loaded, impl, result, sandbox_path, trace>>

BundleCodeFiles ==
    /\ prog = "patch_round_trip" /\ pc = "patch"
    /\ wire' = bundle_code_files(patch)
    /\ pc' = "wire"
    /\ UNCHANGED <<toolvars, invocations, clone_agent, runs, patch, parsed, created, prog, fs, locked,
                   mgrvars, loaded, impl, result, sandbox_path, trace>>

ParseFileChanges ==
    /\ prog \in {"patch_decode", "patch_round_trip"} /\ pc = "wire"
    /\ parsed' = parse_file_changes(wire)
    /\ pc' = "parsed"
    /\ UNCHANGED <<toolvars, invocations, clone_agent, runs, patch, wire, created, prog, fs, locked,
                   mgrvars, loaded, impl, result, sandbox_path, trace>>

InitPatch ==
    /\ fs = [dirs |-> {}, files |-> {}]
    /\ locked = {}
    /\ handle = None
    /\ last = NoCall
    /\ agent = NewAgent(None)
    /\ IdleClone /\ IdleRuns
    /\ created = {}
    /\ loaded = {}
    /\ impl = [a \in AgentNames |-> "repo"]
    /\ result = NewResult
    /\ sandbox_path = None
    /\ trace = <<>>
    /\ pc = "patch"
    /\ wire = <<>> /\ parsed = <<>>
    /\ IdleTools
    /\ \/ /\ prog = "patch_decode"
          /\ patch \in SeqsUpTo(Blocks, MaxBlocks)
       \/ /\ prog = "patch_round_trip"
          /\ patch \in {q \in SeqsUpTo(Files, MaxFiles) :
                          \A m, n \in 1..Len(q) : q[m].path = q[n].path => m = n}

NextPatch ==
    \/ Respond
    \/ BundleCodeFiles
    \/ ParseFileChanges

SpecPatch == InitPatch /\ [][NextPatch]_vars

----------------------------------------------------------------------------
\* git-sandbox-agent/tools/git_ops.py called on its own, subprocess.run
\* standing for the completed process it returns

GitArgs == {<<"status">>, <<"invalid-command">>}
GitCwds == {<<"home">>, <<"tmp", "sandbox">>}
ReturnCodes == {0, 1, 128}
Stdouts == {<<>>, <<NL>>, <<"o">>, <<SP, "o", NL>>, <<"o", SP, "k", NL>>}
Stderrs == {<<>>, <<"e">>, <<"e", NL>>}
Processes == [returncode : ReturnCodes, stdout : Stdouts, stderr : Stderrs]

\* a variant of run_git_command that runs a failed command once more
run_git_command_retry(args, cwd, process) ==
    LET inv == GitInvocation(args, cwd, fs)
    IN  IF process.returncode # 0
        THEN [invocations |-> <<inv, inv>>,
              ret |-> [raised |-> TRUE, value |-> None,
                       error |-> <<"Git command failed: ">> \o process.stderr]]
        ELSE [invocations |-> <<inv>>,
              ret |-> [raised |-> FALSE, value |-> strip(process.stdout),
                       error |-> None]]

\* run_git_command(args, cwd): [invocations, ret]
run_git_command(args, cwd, process) ==
    [invocations |-> <<GitInvocation(args, cwd, fs)>>,
     ret |-> IF process.returncode # 0
             THEN [raised |-> TRUE, value |-> None,
                   error |-> <<"Git command failed: ">> \o process.stderr]
             ELSE [raised |-> FALSE, value |-> strip(process.stdout),
                   error |-> None]]

\* a variant of clone_repo that always names the branch
clone_repo_branch_always(repo_url, target_dir, branch, process) ==
    run_git_command(<<"clone", repo_url, ".", "--branch", branch>>, target_dir, process)

\* clone_repo(repo_url, target_dir, branch) of git-sandbox-agent
clone_repo(repo_url, target_dir, branch, process) ==
    run_git_command(clone_args(repo_url, branch), target_dir, process)

RunGitCommand ==
    /\ prog = "git_ops" /\ pc = "idle"
    /\ \E args \in GitArgs, cwd \in GitCwds, process \in Processes :
          LET r == run_git_command(args, cwd, process)
          IN  /\ call' = [op |-> "run_git_command", args |-> args, cwd |-> cwd,
                          process |-> process]
              /\ invocations' = r.invocations
              /\ ret' = r.ret
    /\ pc' = "returned"
    /\ UNCHANGED <<clone_agent, runs, patchvars, codervars, valvars, commit_agent, created, prog, fs,
                   locked, mgrvars, loaded, impl, result, sandbox_path, trace>>

CloneRepo ==
    /\ prog = "git_ops" /\ pc = "idle"
    /\ \E target_dir \in GitCwds, branch \in Branches, process \in Processes :
          LET r == clone_repo("url", target_dir, branch, process)
          IN  /\ call' = [op |-> "clone_repo", repo_url |-> "url",
                          target_dir |-> target_dir, branch |-> branch,
                          process |-> process]
              /\ invocations' = r.invocations
              /\ ret' = r.ret
    /\ pc' = "returned"
    /\ UNCHANGED <<clone_agent, runs, patchvars, codervars, valvars, commit_agent, created, prog, fs,
                   locked, mgrvars, loaded, impl, result, sandbox_path, trace>>

----------------------------------------------------------------------------
\* git-sandbox-agent/tools/validation.py and GitSandboxAgent.run_validation,
\* generate_report

\* the files run_tests and run_linter look for in the repository
Markers == {"pytest.ini", "conftest.py", "setup.py", ".flake8", "setup.cfg", ".pylintrc"}

\* ' '.join(command)
JoinSpace(command) ==
    [i \in 1..(2 * Len(command) - 1) |->
        IF i % 2 = 1 THEN command[(i + 1) \div 2] ELSE SP]

\* a variant of the detection of run_tests that looks for setup.py first
test_command_setup_first(m, test_command) ==
    IF test_command # None /\ test_command # <<>> THEN test_command
    ELSE IF "setup.py" \in m THEN <<"python", "setup.py", "test">>
    ELSE IF "pytest.ini" \in m \/ "conftest.py" \in m THEN <<"pytest">>
    ELSE <<"python", "-m", "unittest", "discover">>

\* the command run_tests runs: "if not test_command:" detects one
test_command_for(m, test_command) ==
    IF test_command # None /\ test_command # <<>> THEN test_command
    ELSE IF "pytest.ini" \in m \/ "conftest.py" \in m THEN <<"pytest">>
    ELSE IF "setup.py" \in m THEN <<"python", "setup.py", "test">>
    ELSE <<"python", "-m", "unittest", "discover">>

\* the command run_linter runs
linter_command_for(m, linter_command) ==
    IF linter_command # None /\ linter_command # <<>> THEN linter_command
    ELSE IF ".flake8" \in m \/ "setup.cfg" \in m THEN <<"flake8">>
    ELSE IF ".pylintrc" \in m THEN <<"pylint", ".">>
    ELSE <<"flake8", ".">>

\* the command run_custom_script runs
script_command(script_config) == <<"python", script_config.path>> \o script_config.args

\* what subprocess.run comes to: a return code, or an exception
Exits == {[raised |-> FALSE, returncode |-> 0], [raised |-> FALSE, returncode |-> 1],
          [raised |-> TRUE, returncode |-> 0]}

\* the dictionary run_tests, run_linter and run_custom_script return, or the
\* one run_validation records when they raised
CheckResult(command, exit) ==
    IF exit.raised
    THEN [success |-> FALSE, raised |-> TRUE, command |-> None]
    ELSE [success |-> exit.returncode = 0, raised |-> FALSE,
          command |-> JoinSpace(command)]

\* the commands of a validation, in the order run_validation runs them
ValidationCommands(m, test_command, linter_command, custom_scripts) ==
    <<test_command_for(m, test_command), linter_command_for(m, linter_command)>>
    \o [k \in 1..Len(custom_scripts) |-> script_command(custom_scripts[k])]

\* a variant of run_validation that stops at the first check that fails
run_validation_abort(cwd, m, test_command, linter_command, custom_scripts, exits) ==
    LET cmds == ValidationCommands(m, test_command, linter_command, custom_scripts)
        bad == {k \in 1..Len(cmds) : exits[k].raised \/ exits[k].returncode # 0}
        n == IF bad = {} THEN Len(cmds) ELSE Least(bad)
        res == [k \in 1..Len(cmds) |->
                   IF k <= n THEN CheckResult(cmds[k], exits[k])
                   ELSE CheckResult(cmds[k], [raised |-> TRUE, returncode |-> 0])]
    IN  [invocations |-> [k \in 1..n |-> [argv |-> cmds[k], cwd |-> cwd]],
         results |-> [tests |-> res[1], linter |-> res[2],
                      custom_scripts |-> SubSeq(res, 3, Len(res))]]

\* run_validation with the sandbox set up: [invocations, results], exits[k]
\* being what the k-th subprocess.run comes to
run_validation(cwd, m, test_command, linter_command, custom_scripts, exits) ==
    LET cmds == ValidationCommands(m, test_command, linter_command, custom_scripts)
        res == [k \in 1..Len(cmds) |-> CheckResult(cmds[k], exits[k])]
    IN  [invocations |-> [k \in 1..Len(cmds) |-> [argv |-> cmds[k], cwd |-> cwd]],
         results |-> [tests |-> res[1], linter |-> res[2],
                      custom_scripts |-> SubSeq(res, 3, Len(res))]]

AllOf(rs) == \A k \in 1..Len(rs) : rs[k].success

\* a variant of generate_report that leaves the custom scripts out
generate_report_no_scripts(vr) ==
    IF vr = <<>> THEN [status |-> "No validation results available"]
    ELSE [summary |-> [tests_passed |-> vr.tests.success,
                       linter_passed |-> vr.linter.success,
                       overall_success |-> vr.tests.success /\ vr.linter.success],
          details |-> vr]

\* generate_report()
generate_report(vr) ==
    IF vr = <<>> THEN [status |-> "No validation results available"]
    ELSE [summary |-> [tests_passed |-> vr.tests.success,
                       linter_passed |-> vr.linter.success,
                       overall_success |->
                           IF vr.custom_scripts # <<>>
                           THEN vr.tests.success /\ vr.linter.success
                                /\ AllOf(vr.custom_scripts)
                           ELSE vr.tests.success /\ vr.linter.success],
          details |-> vr]

MaxScripts == 2
TestCommands == {None, <<>>, <<"make", "test">>}
LinterCommands == {None, <<"ruff">>}
Scripts == {[path |-> "validate.py", args |-> <<"-v">>]}

\* a variant of the check of run_validation that lets every agent through
sandbox_set_up_always(a) == TRUE

\* "if not self.sandbox_path: raise RuntimeError(...)"
sandbox_set_up(a) == a.sandbox_path # None

RunValidation ==
    /\ prog = "validation" /\ pc \in {"idle", "cleaned"}
    /\ IF ~sandbox_set_up(agent)
       THEN /\ call' = [op |-> "run_validation", sandbox_set |-> FALSE]
            /\ ret' = [raised |-> TRUE, value |-> None,
                       error |-> <<"Sandbox not set up. Call setup_sandbox first.">>]
            /\ invocations' = <<>>
            /\ pc' = "raised"
            /\ UNCHANGED validation_results
       ELSE \E test_command \in TestCommands, linter_command \in LinterCommands,
               custom_scripts \in SeqsUpTo(Scripts, MaxScripts) :
            \E exits \in [1..(2 + Len(custom_scripts)) -> Exits] :
               LET r == run_validation(agent.sandbox_path, markers, test_command,
                                       linter_command, custom_scripts, exits)
               IN  /\ call' = [op |-> "run_validation", sandbox_set |-> TRUE,
                               test_command |-> test_command,
                               linter_command |-> linter_command,
                               custom_scripts |-> custom_scripts, exits |-> exits]
                   /\ invocations' = r.invocations
                   /\ validation_results' = r.results
                   /\ ret' = [raised |-> FALSE, value |-> None, error |-> None]
                   /\ pc' = "validated"
    /\ UNCHANGED <<clone_agent, runs, patchvars, codervars, markers, report, commit_agent, created, prog,
                   fs, locked, mgrvars, loaded, impl, result, sandbox_path, trace>>

\* GitSandboxAgent.cleanup() after a validation
ValidationCleanup ==
    /\ prog = "validation" /\ pc = "validated"
    /\ LET c == agent_cleanup(fs, locked, agent)
       IN  /\ fs' = c.fs
           /\ agent' = [agent EXCEPT !.sandbox_path = c.sandbox_path]
    /\ pc' = "cleaned"
    /\ UNCHANGED <<extvars, invocations, created, prog, locked, handle, last, loaded, impl,
                   result, sandbox_path, trace>>

GenerateReport ==
    /\ prog = "validation" /\ pc \in {"idle", "validated"}
    /\ report' = generate_report(validation_results)
    /\ pc' = "reported"
    /\ UNCHANGED <<clone_agent, runs, patchvars, codervars, markers, validation_results, commit_agent,
                   call, ret, invocations, created, prog, fs, locked, mgrvars, loaded,
                   impl, result, sandbox_path, trace>>

----------------------------------------------------------------------------
\* coder-agent/tools/code_updater.py: apply_changes, generate_diff_summary,
\* and the end of CoderAgent.process_repo.  A working tree is [dirs, files]:
\* the directories below repo_path and the content of each file, paths being
\* the components of file_path.

RepoPaths == {<<"a">>, <<"d">>, <<"d", "a">>}

\* os.path.join(repo_path, file_path) for a file_path that leaves the
\* repository: "../a" is joined as it is, and for "/a" the join drops
\* repo_path.  <<"..">> is the parent of repo_path and <<"/">> the root
\* directory; both exist, and os.makedirs(exist_ok=True) leaves them alone.
OutsidePaths == {<<"..", "a">>, <<"/", "a">>}

Ancestors(path) == {SubSeq(path, 1, n) : n \in 1..(Len(path) - 1)}

\* os.path.exists(abs_path)
path_exists(t, path) == path \in t.dirs \/ path \in DOMAIN t.files

\* one turn of the loop of apply_changes: os.makedirs(dirname, exist_ok=True)
\* raises when an ancestor is a file, open(abs_path, 'w') raises for a
\* directory and for a file that cannot be opened for writing
apply_entry(t, entry, failing) ==
    LET up == Ancestors(entry.path)
    IN  IF up \cap DOMAIN t.files # {}
        THEN [tree |-> t, success |-> FALSE]
        ELSE IF entry.path \in t.dirs \/ entry.path \in failing
        THEN [tree |-> [t EXCEPT !.dirs = @ \cup up], success |-> FALSE]
        ELSE [tree |-> [dirs |-> t.dirs \cup up,
                        files |-> (entry.path :> entry.content) @@ t.files],
              success |-> TRUE]

\* a variant of apply_changes that gives up at the first entry that fails
RECURSIVE apply_changes_abort(_, _, _, _)
apply_changes_abort(t, file_changes, failing, res) ==
    IF file_changes = <<>> THEN [tree |-> t, results |-> res]
    ELSE LET r == apply_entry(t, Head(file_changes), failing)
             out == Append(res, [path |-> Head(file_changes).path,
                                 success |-> r.success])
         IN  IF r.success
             THEN apply_changes_abort(r.tree, Tail(file_changes), failing, out)
             ELSE [tree |-> r.tree, results |-> out]

\* apply_changes(repo_path, file_changes): [tree, results], res being the
\* results so far
RECURSIVE apply_changes(_, _, _, _)
apply_changes(t, file_changes, failing, res) ==
    IF file_changes = <<>> THEN [tree |-> t, results |-> res]
    ELSE LET r == apply_entry(t, Head(file_changes), failing)
         IN  apply_changes(r.tree, Tail(file_changes), failing,
                           Append(res, [path |-> Head(file_changes).path,
                                        success |-> r.success]))

\* generate_diff_summary(repo_path, file_changes): the lines after the header
generate_diff_summary(t, file_changes) ==
    [k \in 1..Len(file_changes) |->
        [status |-> IF path_exists(t, file_changes[k].path)
                    THEN "Modified" ELSE "Created",
         path |-> file_changes[k].path]]

\* the file changes parse_file_changes hands over: a dictionary, so no path
\* twice
PatchSets ==
    {q \in SeqsUpTo([path : RepoPaths \cup OutsidePaths, content : {"y"}], MaxFiles) :
        \A m, n \in 1..Len(q) : q[m].path = q[n].path => m = n}

\* the working trees process_repo starts from
InitRepos ==
    {t \in [dirs : SUBSET {<<"d">>}, files : UNION {[F -> {"x"}] : F \in SUBSET RepoPaths}] :
        /\ t.dirs \cap DOMAIN t.files = {}
        /\ \A f \in DOMAIN t.files : Ancestors(f) \subseteq t.dirs}

\* process_repo from "Step 3" on, file_changes being what parse_file_changes
\* returned
ProcessRepo ==
    /\ prog = "process_repo" /\ pc = "idle"
    /\ \E file_changes \in PatchSets :
          /\ call' = [op |-> "process_repo", file_changes |-> file_changes,
                      repo |-> repo]
          /\ existed' = repo.dirs \cup DOMAIN repo.files
          /\ IF file_changes = <<>>
             THEN /\ ret' = [raised |-> FALSE, value |-> None,
                             error |-> <<"No file changes found in the response">>]
                  /\ UNCHANGED <<repo, results, summary>>
             ELSE LET r == apply_changes(repo, file_changes, io_fail, <<>>)
                  IN  /\ repo' = r.tree
                      /\ results' = r.results
                      /\ summary' = generate_diff_summary(r.tree, file_changes)
                      /\ ret' = [raised |-> FALSE, value |-> None, error |-> None]
    /\ pc' = "returned"
    /\ UNCHANGED <<clone_agent, runs, patchvars, io_fail, valvars, commit_agent, invocations, created,
                   prog, fs, locked, mgrvars, loaded, impl, result, sandbox_path, trace>>

----------------------------------------------------------------------------
\* git-commit-agent: tools/git_ops.py and core/agent.py.  A call works on
\* st = [agent, invs]: the attributes of the agent and the git invocations
\* made so far, each with whether it exited with 0; exits[k] is whether the
\* k-th invocation does.

ExitSeqs == [1..7 -> BOOLEAN]

\* run_git_command(args, cwd) of git-commit-agent, appended to the log
Git(invs, args, exits) ==
    Append(invs, [argv |-> <<"git">> \o args, ok |-> exits[Len(invs) + 1]])

\* the last invocation exited with 0: run_git_command did not raise
Ok(invs) == invs[Len(invs)].ok

Truthy(branch) == branch \notin {NoBranch, ""}

\* a variant of git_ops.create_branch that goes on after a failed checkout
\* of the base branch
git_create_branch_regardless(invs, branch_name, base_branch, exits) ==
    IF Truthy(base_branch)
    THEN Git(Git(invs, <<"checkout", base_branch>>, exits),
             <<"checkout", "-b", branch_name>>, exits)
    ELSE Git(invs, <<"checkout", "-b", branch_name>>, exits)

\* Both(invs, first, second): two commands run one after the other, the
\* second only when the first did not raise
Second(after_first, second, exits) ==
    IF Ok(after_first) THEN Git(after_first, second, exits) ELSE after_first
Both(invs, first, second, exits) == Second(Git(invs, first, exits), second, exits)

\* git_ops.create_branch(branch_name, cwd, base_branch)
git_create_branch(invs, branch_name, base_branch, exits) ==
    IF Truthy(base_branch)
    THEN Both(invs, <<"checkout", base_branch>>, <<"checkout", "-b", branch_name>>, exits)
    ELSE Git(invs, <<"checkout", "-b", branch_name>>, exits)

\* git_ops.commit_all(message, cwd): stage_all, then commit_changes
git_commit_all(invs, exits) ==
    Both(invs, <<"add", ".">>, <<"commit", "-m", "message">>, exits)

GitError == <<"Git command failed">>
Hash == <<"hash">>

\* "except RuntimeError": success = False and the error message is kept
Raised(ca, invs) ==
    [agent |-> [ca EXCEPT !.success = FALSE, !.error_message = GitError],
     invs |-> invs]

\* stage_files, stage_all, checkout_branch, create_branch: the git command
\* ran as invs shows, and on success branch_name is set to branch
Ran(ca, invs, branch) ==
    IF Ok(invs)
    THEN [agent |-> [ca EXCEPT !.success = TRUE, !.branch_name = branch],
          invs |-> invs]
    ELSE Raised(ca, invs)

\* commit and commit_all after the commit command: on success the hash is
\* asked for, and a failure of that is only logged
Committed(ca, invs, with_hash) ==
    IF Ok(invs)
    THEN [agent |-> [ca EXCEPT !.success = TRUE,
                                  !.commit_hash = IF Ok(with_hash) THEN Hash ELSE @],
          invs |-> with_hash]
    ELSE Raised(ca, invs)

agent_commit(st, invs, exits) ==
    Committed(st.agent, invs, Git(invs, <<"rev-parse", "HEAD">>, exits))

\* push after the branch is known: branch_name is set before push_branch
Pushed(ca, invs) ==
    IF Ok(invs)
    THEN [agent |-> [ca EXCEPT !.success = TRUE], invs |-> invs]
    ELSE Raised(ca, invs)

\* a variant of push that takes the commit back when the push fails
agent_push_undo(st, branch, exits) ==
    IF branch = NoBranch
    THEN Raised(st.agent, Git(st.invs, <<"rev-parse", "--abbrev-ref", "HEAD">>, exits))
    ELSE IF exits[Len(st.invs) + 1]
    THEN Pushed([st.agent EXCEPT !.branch_name = branch],
                Git(st.invs, <<"push", "origin", branch>>, exits))
    ELSE Raised([st.agent EXCEPT !.branch_name = branch, !.commit_hash = None],
                Git(Git(st.invs, <<"push", "origin", branch>>, exits),
                    <<"reset", "--hard", "HEAD~1">>, exits))

\* GitCommitAgent.push(branch, remote): without a branch the current one
\* is asked for first
PushCurrent(ca, asked, exits) ==
    IF Ok(asked)
    THEN Pushed([ca EXCEPT !.branch_name = "current"],
                Git(asked, <<"push", "origin", "current">>, exits))
    ELSE Raised(ca, asked)

agent_push(st, branch, exits) ==
    IF branch = NoBranch
    THEN PushCurrent(st.agent,
                     Git(st.invs, <<"rev-parse", "--abbrev-ref", "HEAD">>, exits), exits)
    ELSE Pushed([st.agent EXCEPT !.branch_name = branch],
                Git(st.invs, <<"push", "origin", branch>>, exits))

\* the operations of a GitCommitAgent
commit_agent_call(st, c, exits) ==
    CASE c.op = "stage_files" ->
             Ran(st.agent, Git(st.invs, <<"add", "file">>, exits), st.agent.branch_name)
      [] c.op = "stage_all" ->
             Ran(st.agent, Git(st.invs, <<"add", ".">>, exits), st.agent.branch_name)
      [] c.op = "commit" ->
             agent_commit(st, Git(st.invs, <<"commit", "-m", "message">>, exits), exits)
      [] c.op = "commit_all" ->
             agent_commit(st, git_commit_all(st.invs, exits), exits)
      [] c.op = "create_branch" ->
             Ran(st.agent,
                 git_create_branch(st.invs, c.branch_name, c.base_branch, exits),
                 c.branch_name)
      [] c.op = "checkout_branch" ->
             Ran(st.agent, Git(st.invs, <<"checkout", c.branch_name>>, exits),
                 c.branch_name)
      [] c.op = "push" -> agent_push(st, c.branch_name, exits)

CommitCall(op, branch_name, base_branch) ==
    [op |-> op, branch_name |-> branch_name, base_branch |-> base_branch]

\* a variant of commit_and_push that goes on whatever a step came to
commit_and_push_regardless(c, exits) ==
    agent_push(commit_agent_call(
                   commit_agent_call([agent |-> NewCommitAgent, invs |-> <<>>],
                                     CommitCall("create_branch", c.branch, c.base_branch),
                                     exits),
                   CommitCall("commit_all", NoBranch, NoBranch), exits),
               c.branch, exits)

\* commit_and_push from the commit on: "if not agent.commit_all(...): return",
\* then the push if requested
ThenPush(st, c, exits) ==
    IF st.agent.success /\ c.push THEN agent_push(st, c.branch, exits) ELSE st

ThenCommit(st, c, exits) ==
    ThenPush(commit_agent_call(st, CommitCall("commit_all", NoBranch, NoBranch), exits),
             c, exits)

AfterBranch(st, c, exits) ==
    IF st.agent.success THEN ThenCommit(st, c, exits) ELSE st

\* commit_and_push(repo_dir, commit_message, push, branch, create_branch,
\* base_branch) in a valid repository: [agent, invs]
commit_and_push(c, exits) ==
    IF c.create_branch /\ Truthy(c.branch)
    THEN AfterBranch(commit_agent_call([agent |-> NewCommitAgent, invs |-> <<>>],
                                       CommitCall("create_branch", c.branch, c.base_branch),
                                       exits),
                     c, exits)
    ELSE ThenCommit([agent |-> NewCommitAgent, invs |-> <<>>], c, exits)

CommitAndPush ==
    /\ prog = "commit_and_push" /\ pc = "idle"
    /\ \E valid \in BOOLEAN,
          c \in [op : {"commit_and_push"}, push : BOOLEAN, branch : Branches,
                 create_branch : BOOLEAN, base_branch : {NoBranch, "main"}],
          exits \in ExitSeqs :
          IF valid
          THEN LET r == commit_and_push(c, exits)
               IN  /\ call' = c @@ [valid |-> TRUE, n |-> 1]
                   /\ invocations' = r.invs
                   /\ commit_agent' = r.agent
                   /\ ret' = [raised |-> FALSE, value |-> None, error |-> None]
          ELSE /\ call' = [op |-> "commit_and_push", valid |-> FALSE, n |-> 1]
               /\ invocations' = <<>>
               /\ ret' = [raised |-> TRUE, value |-> None,
                          error |-> <<"is not a Git repository">>]
               /\ UNCHANGED commit_agent
    /\ pc' = "returned"
    /\ UNCHANGED <<clone_agent, runs, patchvars, codervars, valvars, created, prog, fs,
                   locked, mgrvars, loaded, impl, result, sandbox_path, trace>>

\* the calls made of a GitCommitAgent
CommitCalls ==
    {CommitCall(op, NoBranch, NoBranch) :
        op \in {"stage_files", "stage_all", "commit", "commit_all"}}
    \cup {CommitCall("create_branch", "feature-branch", b) : b \in {NoBranch, "main"}}
    \cup {CommitCall("checkout_branch", "main", NoBranch)}
    \cup {CommitCall("push", b, NoBranch) : b \in {NoBranch, "feature-branch"}}

CommitAgentCall ==
    /\ prog = "commit_agent" /\ call.n < MaxCalls
    /\ \E c \in CommitCalls, exits \in [1..3 -> BOOLEAN] :
          LET r == commit_agent_call([agent |-> commit_agent, invs |-> <<>>], c, exits)
          IN  /\ call' = c @@ [n |-> call.n + 1, before |-> commit_agent,
                               returned |-> r.agent.success]
              /\ invocations' = r.invs
              /\ commit_agent' = r.agent
    /\ UNCHANGED <<clone_agent, runs, patchvars, codervars, valvars, ret, pc, created, prog,
                   fs, locked, mgrvars, loaded, impl, result, sandbox_path, trace>>

\* the state the tools start from
InitTools ==
    /\ locked = {}
    /\ handle = None
    /\ last = NoCall
    /\ IdleClone /\ IdleRuns /\ IdlePatch
    /\ created = {}
    /\ loaded = {}
    /\ impl = [a \in AgentNames |-> "repo"]
    /\ result = NewResult
    /\ sandbox_path = None
    /\ trace = <<>>
    /\ pc = "idle"
    /\ fs = [dirs |-> {<<"home">>}, files |-> {}]
    /\ existed = {}
    /\ results = <<>> /\ summary = <<>>
    /\ validation_results = <<>> /\ report = <<>>
    /\ invocations = <<>> /\ call = NoToolCall /\ ret = NoReturn
    /\ commit_agent = NewCommitAgent
    /\ \/ /\ prog = "git_ops"
          /\ agent = NewAgent(None)
          /\ markers = {}
          /\ repo = EmptyRepo /\ io_fail = {}
       \/ /\ prog \in {"commit_and_push", "commit_agent"}
          /\ agent = NewAgent(None)
          /\ markers = {}
          /\ repo = EmptyRepo /\ io_fail = {}
       \/ /\ prog = "process_repo"
          /\ agent = NewAgent(None)
          /\ markers = {}
          /\ repo \in InitRepos
          /\ io_fail \in SUBSET RepoPaths
       \/ /\ prog = "validation"
          /\ agent \in {NewAgent(<<"home">>),
                        [NewAgent(<<"home">>) EXCEPT !.sandbox_path = <<"home">>]}
          /\ markers \in SUBSET Markers
          /\ repo = EmptyRepo /\ io_fail = {}

NextTools ==
    \/ RunGitCommand
    \/ CloneRepo
    \/ RunValidation
    \/ ValidationCleanup
    \/ GenerateReport
    \/ ProcessRepo
    \/ CommitAndPush
    \/ CommitAgentCall

SpecTools == InitTools /\ [][NextTools]_vars

----------------------------------------------------------------------------
\* Properties.

CleanupOps == {"cleanup_sandbox", "cleanup_clone_directory", "cleanup"}
Warnings == {"warning_outside_root", "warning_non_existent"}

Returned == pc = "returned"

TraceIdx == 1..Len(trace)
Issued(op) == \E i \in TraceIdx : trace[i].op = op
IssuedOk(op) == \E i \in TraceIdx : trace[i].op = op /\ trace[i].ok
Failed(op) == \E i \in TraceIdx : trace[i].op = op /\ ~trace[i].ok
CleanupCount == Cardinality({i \in TraceIdx : trace[i].op = "cleanup"})

IsCleanupEntry(e) == e.step = "cleanup_sandbox"
IsPipelineEntry(e) == e.step # "cleanup_sandbox"
PipelineEntries == SelectSeq(result.steps, IsPipelineEntry)
HasEntry(step, success) ==
    \E i \in 1..Len(result.steps) : result.steps[i] = Entry(step, success)

\* C1: a manager cleanup removes nodes only inside the containment root, and
\* for a path that leads outside the root (also one that starts with the root
\* and leaves it through "..") it removes nothing and logs a warning.
C1_Containment ==
    last.op \in {"cleanup_sandbox", "cleanup_clone_directory"} =>
        /\ \A n \in last.removed : IsPrefix(ROOT_SANDBOX_DIR, n)
        /\ ~IsPrefix(ROOT_SANDBOX_DIR, last.target) =>
               last.removed = {} /\ last.log \in Warnings

\* C2: a cleanup repeated on the same handle, or called on a handle whose
\* directory is already gone, does not raise and removes nothing.
C2_IdempotentCleanup ==
    (last.op \in CleanupOps /\ (last.again \/ last.gone_before)) =>
        last.removed = {} /\ ~last.raised

\* C2 witness: the second of two cleanup_sandbox calls on a handle whose tree
\* the first call removed.
C2_Witness ==
    /\ last.op = "cleanup_sandbox" /\ last.again
    /\ last.prev_removed # {}
    /\ last.removed = {}

\* C3: a run that created a sandbox has invoked the sandbox cleanup exactly
\* once by the time it returns.
C3_CleanupExactlyOnce ==
    (Returned /\ IssuedOk("create_sandbox")) => CleanupCount = 1

IsPipelineOp(t) == t.op # "cleanup"
PipelineOps == SelectSeq(trace, IsPipelineOp)
OrchestratorOrder == <<"create_sandbox", "clone", "branch", "commit", "push">>
MainOrder == <<"create_sandbox", "clone", "mutate", "commit">>

StepOrder == <<"create_sandbox", "clone_repo", "create_branch", "commit_changes",
               "create_pr">>

\* the shape of the step list: the pipeline entries are a prefix of the fixed
\* order (so each name occurs once), and a cleanup entry is the last one
StepsShape ==
    LET n == Len(result.steps)
    IN  /\ Len(PipelineEntries) <= Len(StepOrder)
        /\ \A i \in 1..Len(PipelineEntries) : PipelineEntries[i].step = StepOrder[i]
        /\ \A i \in 1..n : IsCleanupEntry(result.steps[i]) => i = n

\* C9: the step list only grows at its end, names each step at most once,
\* keeps the pipeline entries in the fixed order and has the cleanup entry,
\* if any, last.
C9_StepsAppendOnly ==
    /\ []StepsShape
    /\ [][IsPrefix(result.steps, result.steps')]_vars

\* C9 witness: a returned run with several pipeline entries and the cleanup
\* entry.
C9_Witness ==
    /\ Returned
    /\ Len(PipelineEntries) >= 2
    /\ Len(result.steps) = Len(PipelineEntries) + 1

AnyStepFailed == \E i \in TraceIdx : ~trace[i].ok
PipelineStepFailed == \E i \in TraceIdx : ~trace[i].ok /\ trace[i].op # "cleanup"

ManagerLogs == {"info_cleaning_up", "warning_outside_root", "warning_non_existent"}
AgentOps == {"setup_sandbox", "cleanup", "clone_repository", "__exit__"}

\* the working directory the caller supplied to the agent that runs, or None
SuppliedDir ==
    IF prog = "sandbox_agent" THEN agent.working_dir
    ELSE IF prog = "clone_agent" THEN clone_agent.working_dir
    ELSE None

\* C11: no call of an agent constructed with a working directory removes
\* anything or reaches a removal of the sandbox manager, and once the
\* directory exists (setup_sandbox creates it) it still exists after the call.
C11_WorkingDirNeverDeleted ==
    (SuppliedDir # None /\ last.op \in AgentOps) =>
        /\ last.removed = {}
        /\ last.log \notin ManagerLogs
        /\ (last.op = "setup_sandbox" \/ ~last.gone_before) => exists(fs, SuppliedDir)

\* C11 witness: a GitSandboxAgent with a working directory inside the root
\* cloned into it and then ran cleanup, and the clone is still there.
C11_Witness ==
    /\ prog = "sandbox_agent"
    /\ agent.working_dir = ROOT_SANDBOX_DIR \o <<"sandbox-1">>
    /\ last.op = "cleanup" /\ last.log = "info_skipping_custom_dir"
    /\ (agent.working_dir \o <<"f">>) \in fs.files

CreateOps == {"create_sandbox", "create_clone_directory"}

\* C12: when a run has created its sandbox, the sandbox of every other run
\* that is live (created and not yet cleaned up) is still there and none of
\* its contents were removed.
C12_RunIsolation ==
    (prog = "two_runs" /\ last.op \in CreateOps /\ ~last.raised) =>
        \A r \in Runs :
            (runs[r] # None /\ runs[r] # last.path) =>
                /\ runs[r] \in fs.dirs
                /\ \A n \in last.removed : ~IsPrefix(runs[r], n)

\* the sandboxes created for the agent that are on disk
AliveSandboxes == created \cap fs.dirs

C14_FreshEmptyDirectory ==
    (last.op \in CreateOps /\ ~last.raised) =>
        /\ Len(last.path) = Len(ROOT_SANDBOX_DIR) + 1
        /\ Parent(last.path) = ROOT_SANDBOX_DIR
        /\ IsEmptyDir(fs, last.path)

\* the stale contents of the requested clone directory that are still there
StaleLeft == {k \in locked \cap fs.files : IsPrefix(last.requested, k)}

Below(path) == {n \in Nodes(fs) : IsPrefix(path, n)}

Decoded == prog = "patch_decode" /\ pc = "parsed"

\* the blocks of the response that have a path and a content after trimming
BlockPath(b) == strip(b.path)
BlockContent(b) == strip(JoinLines(b.lines))
IsKept(b) == BlockPath(b) # <<>> /\ BlockContent(b) # <<>>
Kept == SelectSeq(patch, IsKept)
KeptAt(p) == {n \in 1..Len(Kept) : BlockPath(Kept[n]) = p}
Duplicated == {p \in {BlockPath(Kept[n]) : n \in 1..Len(Kept)} : Cardinality(KeptAt(p)) > 1}

\* the paths of the kept blocks in the order they are first seen
RECURSIVE FirstSeen(_, _)
FirstSeen(n, acc) ==
    IF n > Len(Kept) THEN acc
    ELSE FirstSeen(n + 1,
                   IF \E m \in 1..Len(acc) : acc[m] = BlockPath(Kept[n]) THEN acc
                   ELSE Append(acc, BlockPath(Kept[n])))

Keys(d) == [n \in 1..Len(d) |-> d[n].path]

\* C18: when a path occurs in more than one block of the response, the result
\* of parse_file_changes has exactly one entry for it, with the content of the
\* last of these blocks, and its keys are in the order the paths were first
\* seen.
C18_LastBlockWins ==
    (Decoded /\ Duplicated # {}) =>
        /\ \A p \in Duplicated :
              /\ Cardinality({n \in 1..Len(parsed) : parsed[n].path = p}) = 1
              /\ \A n \in 1..Len(parsed) :
                    parsed[n].path = p =>
                        parsed[n].content = BlockContent(Kept[Greatest(KeptAt(p))])
        /\ Keys(parsed) = FirstSeen(1, <<>>)

RoundTripped == prog = "patch_round_trip" /\ pc = "parsed"

Trimmed(t) == t # <<>> /\ strip(t) = t

C27_NoCloneUnlessEmptyTarget ==
    \A i \in 1..Len(invocations) :
        invocations[i].argv[2] = "clone" => invocations[i].cwd_empty

RootChildren == {n \in Nodes(fs) : Len(n) > 1 /\ Parent(n) = ROOT_SANDBOX_DIR}

InitializedRoot == last.op = "initialize_sandbox_root" /\ ~last.raised

AllCallsOk == \A i \in 1..Len(trace) : trace[i].ok

WorkflowSteps ==
    <<"create_sandbox", "clone_repo", "create_branch", "commit_changes",
      "create_pr", "cleanup_sandbox">>

IsTrimOf(v, s) ==
    \E i, j \in 0..Len(s) :
        /\ i + Len(v) + j = Len(s)
        /\ \A k \in 1..Len(s) : (k <= i \/ k > i + Len(v)) => s[k] \in Whitespace
        /\ \A k \in 1..Len(v) : v[k] = s[i + k]
        /\ v # <<>> => v[1] \notin Whitespace /\ v[Len(v)] \notin Whitespace

EndsWith(t, s) ==
    Len(t) >= Len(s) /\ SubSeq(t, Len(t) - Len(s) + 1, Len(t)) = s

\* C26: run_git_command makes exactly one invocation, git followed by the
\* arguments in the given directory; a non-zero exit raises an error carrying
\* stderr and returns no output, exit 0 returns stdout trimmed
C26_OneInvocation ==
    call.op = "run_git_command" =>
        /\ Len(invocations) = 1
        /\ invocations[1].argv = <<"git">> \o call.args
        /\ invocations[1].cwd = call.cwd
        /\ call.process.returncode # 0 =>
               /\ ret.raised /\ ret.value = None
               /\ EndsWith(ret.error, call.process.stderr)
        /\ call.process.returncode = 0 =>
               /\ ~ret.raised
               /\ IsTrimOf(ret.value, call.process.stdout)

C26_Witness ==
    /\ call.op = "run_git_command"
    /\ call.process.returncode # 0
    /\ call.process.stderr # <<>>
    /\ ret.raised

\* C28: clone_repo makes exactly one invocation in the target directory:
\* clone, the url and ".", followed by --branch and the branch exactly when
\* a branch was given, and returns that invocation's output
C28_CloneArguments ==
    call.op = "clone_repo" =>
        /\ Len(invocations) = 1
        /\ invocations[1].cwd = call.target_dir
        /\ invocations[1].argv =
               <<"git", "clone", call.repo_url, ".">>
               \o IF call.branch \notin {NoBranch, ""}
                  THEN <<"--branch", call.branch>> ELSE <<>>
        /\ call.process.returncode = 0 =>
               ~ret.raised /\ IsTrimOf(ret.value, call.process.stdout)

C28_Witness ==
    /\ call.op = "clone_repo"
    /\ call.branch = "feature-branch"
    /\ Len(invocations[1].argv) = 6
    /\ ~ret.raised /\ ret.value # <<>>

Validated == call.op = "run_validation" /\ call.sandbox_set

\* the k-th check of the last validation ran and exited with 0
Passed(k) == ~call.exits[k].raised /\ call.exits[k].returncode = 0

\* C23: the overall_success of generate_report is the conjunction of the
\* outcomes of tests, linter and every configured custom script: true only
\* if none of them failed or raised
C23_OverallIsConjunction ==
    (pc = "reported" /\ Validated /\ call.custom_scripts # <<>>) =>
        /\ report.summary.overall_success = \A k \in DOMAIN call.exits : Passed(k)
        /\ report.summary.tests_passed = Passed(1)
        /\ report.summary.linter_passed = Passed(2)

C23_Witness ==
    /\ pc = "reported" /\ Validated
    /\ Len(call.custom_scripts) = 2
    /\ Passed(1) /\ Passed(2) /\ Passed(3) /\ ~Passed(4)
    /\ ~report.summary.overall_success

\* C24: run_validation runs tests, linter and every custom script in that
\* order whatever the earlier ones came to; a non-zero exit and an exception
\* are both recorded as success = false and nothing is raised
C24_EveryCheckAttempted ==
    Validated =>
        /\ ~ret.raised
        /\ Len(invocations) = 2 + Len(call.custom_scripts)
        /\ call.test_command \notin {None, <<>>} =>
               invocations[1].argv = call.test_command
        /\ call.linter_command \notin {None, <<>>} =>
               invocations[2].argv = call.linter_command
        /\ \A k \in 1..Len(call.custom_scripts) :
               /\ invocations[2 + k].argv =
                      <<"python", call.custom_scripts[k].path>>
                      \o call.custom_scripts[k].args
               /\ validation_results.custom_scripts[k].success = Passed(2 + k)
        /\ Len(validation_results.custom_scripts) = Len(call.custom_scripts)
        /\ validation_results.tests.success = Passed(1)
        /\ validation_results.linter.success = Passed(2)

C24_Witness ==
    /\ Validated
    /\ Len(call.custom_scripts) = 1
    /\ call.exits[1].raised
    /\ ~call.exits[2].raised /\ call.exits[2].returncode = 1
    /\ Passed(3)
    /\ validation_results.custom_scripts[1].success

\* the commands the specification names for a set of marker files
DefaultTestCommand ==
    IF markers \cap {"pytest.ini", "conftest.py"} # {} THEN <<"pytest">>
    ELSE IF "setup.py" \in markers THEN <<"python", "setup.py", "test">>
    ELSE <<"python", "-m", "unittest", "discover">>

DefaultLinterCommand ==
    IF markers \cap {".flake8", "setup.cfg"} # {} THEN <<"flake8">>
    ELSE IF ".pylintrc" \in markers THEN <<"pylint", ".">>
    ELSE <<"flake8", ".">>

\* C25: an explicit command is executed unchanged; without one the command
\* follows the first matching marker in priority order; the reported command
\* string is the executed command
C25_CommandResolution ==
    Validated =>
        /\ invocations[1].argv =
               IF call.test_command \in {None, <<>>} THEN DefaultTestCommand
               ELSE call.test_command
        /\ invocations[2].argv =
               IF call.linter_command \in {None, <<>>} THEN DefaultLinterCommand
               ELSE call.linter_command
        /\ ~call.exits[1].raised =>
               validation_results.tests.command = JoinSpace(invocations[1].argv)
        /\ ~call.exits[2].raised =>
               validation_results.linter.command = JoinSpace(invocations[2].argv)

C25_Witness ==
    /\ Validated
    /\ call.test_command = None /\ call.linter_command = None
    /\ {"pytest.ini", "setup.py", ".pylintrc", "setup.cfg"} \subseteq markers
    /\ invocations[1].argv = <<"pytest">>
    /\ invocations[2].argv = <<"flake8">>
    /\ ~call.exits[1].raised

Processed == call.op = "process_repo" /\ call.file_changes # <<>>

\* nothing of the tree process_repo started from and no other entry stands in
\* the way of writing the k-th entry
Unobstructed(k) ==
    LET path == call.file_changes[k].path
        others == {call.file_changes[n].path : n \in DOMAIN call.file_changes \ {k}}
    IN  /\ path \notin io_fail
        /\ path \notin call.repo.dirs
        /\ Ancestors(path) \cap (DOMAIN call.repo.files \cup others) = {}
        /\ \A o \in others : path \notin Ancestors(o)

C22_CreatedWhenNew ==
    Processed =>
        \A k \in 1..Len(summary) :
            summary[k].status = "Created" <=> summary[k].path \notin existed

\* the agent each pipeline step needs, the call it makes and the error it
\* reports without the agent
StepAgents ==
    <<"git_sandbox_agent", "git_clone_agent", "git_branch_agent",
      "git_commit_agent", "git_pr_agent">>
StepOps == <<"create_sandbox", "clone", "branch", "commit", "push">>
NotAvailable ==
    <<"GitSandboxAgent not available", "GitCloneAgent not available",
      "GitBranchAgent not available", "GitCommitAgent not available",
      "GitPrAgent not available">>

\* the run came to step k with every earlier step done, and the agent of
\* step k is not loaded
MissingAt(k) ==
    /\ prog = "run_git_workflow" /\ Returned
    /\ StepAgents[k] \notin loaded
    /\ \A j \in 1..(k - 1) : StepAgents[j] \in loaded /\ IssuedOk(StepOps[j])

\* what C31 says of the pipeline: no step from k on issued, success=false,
\* the error of the missing agent, the earlier entries all success=true
HaltedAt(k) ==
    /\ \A j \in k..5 : ~Issued(StepOps[j])
    /\ ~result.success
    /\ result.error = NotAvailable[k]
    /\ Len(PipelineEntries) = k - 1
    /\ \A i \in 1..Len(PipelineEntries) : PipelineEntries[i].success

PipelineSteps ==
    {"create_sandbox", "clone_repo", "create_branch", "commit_changes", "create_pr"}

\* C39: in every result run_git_workflow returns, success is true exactly
\* when error is None, and with success=true the five pipeline entries are
\* all there with success=true
C39_SuccessIffNoError ==
    (prog = "run_git_workflow" /\ Returned) =>
        /\ result.success <=> result.error = NoError
        /\ result.success => \A step \in PipelineSteps : HasEntry(step, TRUE)

C39_Witness ==
    /\ prog = "run_git_workflow" /\ Returned
    /\ result.success /\ result.error = NoError
    /\ HasEntry("create_pr", TRUE)
    /\ HasEntry("cleanup_sandbox", FALSE)

\* the step is a setup_sandbox that created a sandbox of the manager and
\* raised after it: the clone failed
CloneFailedStep ==
    /\ prog = "sandbox_agent" /\ agent.working_dir = None
    /\ last'.n = last.n + 1
    /\ last'.op = "setup_sandbox" /\ last'.raised /\ last'.path # None

\* the step is the cleanup of a context-manager exit right after a failed
\* setup_sandbox
ExitAfterFailedSetup ==
    /\ prog = "sandbox_agent" /\ agent.working_dir = None
    /\ last.op = "setup_sandbox" /\ last.raised
    /\ last'.n = last.n + 1 /\ last'.op = "cleanup"

C37_RootNeverRemoved ==
    (last.op \in {"cleanup_sandbox", "cleanup_clone_directory"}
        /\ last.path = ROOT_SANDBOX_DIR) =>
        last.removed = {}

\* the step is a run_validation of an agent whose sandbox_path is None
ValidationWithoutSandbox ==
    /\ prog = "validation" /\ agent.sandbox_path = None
    /\ pc \in {"idle", "cleaned"} /\ pc' \in {"validated", "raised"}

\* C40: run_validation of an agent whose sandbox_path is None raises, runs
\* no command and leaves validation_results as they were
C40_NoValidationWithoutSandbox ==
    [][ValidationWithoutSandbox =>
           /\ ret'.raised
           /\ invocations' = <<>>
           /\ validation_results' = validation_results]_vars

C40_Witness ==
    /\ prog = "validation" /\ pc = "raised"
    /\ agent.sandbox_path = None
    /\ validation_results # <<>>
    /\ ret.raised /\ invocations = <<>>

----------------------------------------------------------------------------
\* the git sub-command of an invocation
Sub(inv) == inv.argv[2]

\* create_branch was called with a base branch and the checkout of the
\* base branch failed
BaseCheckoutFailed ==
    /\ prog = "commit_agent" /\ call.op = "create_branch"
    /\ Truthy(call.base_branch)
    /\ ~invocations[1].ok

\* C35: create_branch with a base branch checks out the base branch before
\* it issues "checkout -b"; when the checkout of the base branch fails,
\* "checkout -b" is never issued, the agent returns false with the error
\* recorded, and branch_name is what it was before the call.
C35_BaseCheckoutFirst ==
    (prog = "commit_agent" /\ call.op = "create_branch" /\ Truthy(call.base_branch)) =>
        /\ invocations[1].argv = <<"git", "checkout", call.base_branch>>
        /\ \A i \in 1..Len(invocations) :
               (Sub(invocations[i]) = "checkout" /\ invocations[i].argv[3] = "-b") =>
                   /\ i = 2
                   /\ invocations[1].ok
                   /\ invocations[i].argv = <<"git", "checkout", "-b", call.branch_name>>
        /\ invocations[1].ok => Len(invocations) = 2
        /\ BaseCheckoutFailed =>
               /\ Len(invocations) = 1
               /\ ~call.returned
               /\ ~commit_agent.success
               /\ commit_agent.error_message # None
               /\ commit_agent.branch_name = call.before.branch_name

C35_Witness ==
    /\ BaseCheckoutFailed
    /\ call.before.branch_name = "main"
    /\ call.before.error_message = None

\* commit_and_push ran in a repository
RanCommitAndPush == prog = "commit_and_push" /\ pc = "returned" /\ call.valid

\* the place of a git sub-command in commit_and_push: the branch, the
\* commit, the push
Stage(inv) ==
    CASE Sub(inv) = "checkout" -> 1
      [] Sub(inv) \in {"add", "commit"} -> 2
      [] inv.argv = <<"git", "rev-parse", "HEAD">> -> 2
      [] OTHER -> 3

GitIssued(sub) == \E i \in 1..Len(invocations) : Sub(invocations[i]) = sub

\* the hash of the new commit could not be read, which commit_all only logs
HashUnread(inv) == inv.argv = <<"git", "rev-parse", "HEAD">> /\ ~inv.ok

\* C33: commit_and_push creates the branch (only when asked to, with a
\* branch name), then stages and commits, then pushes (only when asked to);
\* no operation is attempted after an earlier one failed, and after a failed
\* staging no commit is attempted.
C33_CommitAndPushOrder ==
    RanCommitAndPush =>
        /\ \A i, j \in 1..Len(invocations) :
               i < j =>
                   /\ Stage(invocations[i]) <= Stage(invocations[j])
                   /\ invocations[i].ok \/ HashUnread(invocations[i])
        /\ \A i, j \in 1..Len(invocations) :
               (Sub(invocations[i]) = "add" /\ Sub(invocations[j]) = "commit") =>
                   i < j /\ invocations[i].ok
        /\ GitIssued("checkout") <=> (call.create_branch /\ Truthy(call.branch))
        /\ GitIssued("push") => call.push
        /\ GitIssued("commit") => GitIssued("add")

C33_Witness ==
    /\ RanCommitAndPush
    /\ call.create_branch /\ call.push /\ Truthy(call.base_branch)
    /\ GitIssued("checkout") /\ GitIssued("add")
    /\ ~invocations[Len(invocations)].ok
    /\ Sub(invocations[Len(invocations)]) = "add"

\* commit_and_push committed, and the push it then attempted failed
PushFailedAfterCommit ==
    /\ RanCommitAndPush
    /\ \E i \in 1..Len(invocations) :
           Sub(invocations[i]) = "commit" /\ invocations[i].ok
    /\ \E i \in 1..Len(invocations) :
           Sub(invocations[i]) = "push" /\ ~invocations[i].ok

\* nothing is taken back: no revert, reset or branch deletion is issued, and
\* the failed push is the last command
NothingUndone ==
    /\ \A i \in 1..Len(invocations) :
           Sub(invocations[i]) \notin {"revert", "reset", "branch"}
    /\ Sub(invocations[Len(invocations)]) = "push"
    /\ (call.create_branch /\ Truthy(call.branch)) =>
           commit_agent.branch_name = call.branch

\* C34 as stated: when the commit succeeds and the push fails, the commit
\* and the created branch are left in place and the status still reports
\* the commit hash.
C34_CommitSurvivesFailedPush ==
    PushFailedAfterCommit =>
        /\ NothingUndone
        /\ ~commit_agent.success /\ commit_agent.error_message # None
        /\ commit_agent.commit_hash = Hash

\* C34, amended: when the commit succeeds and the push fails, no revert,
\* reset or branch deletion is issued, and the status reports the failure
\* together with the commit hash that was read after the commit, which is
\* None when "git rev-parse HEAD" failed.
C34_CommitSurvivesFailedPushHashRead ==
    PushFailedAfterCommit =>
        /\ NothingUndone
        /\ ~commit_agent.success /\ commit_agent.error_message # None
        /\ commit_agent.commit_hash =
               IF \E i \in 1..Len(invocations) : HashUnread(invocations[i])
               THEN None ELSE Hash

C34_Witness ==
    /\ PushFailedAfterCommit
    /\ call.create_branch /\ Truthy(call.branch)
    /\ commit_agent.commit_hash = Hash

\* C38: after any sequence of stage, commit, create_branch, checkout and
\* push calls on a GitCommitAgent, get_status() reports error = None
\* whenever it reports success = true.
C38_NoStaleError ==
    prog = "commit_agent" =>
        (commit_agent.success => commit_agent.error_message = None)

\* a path below repo_path
Inside(path) == path[1] \notin {"..", "/"}

\* C36: every file apply_changes creates or overwrites, and every directory
\* it creates, is a descendant of repo_path, whatever the paths of the
\* PatchSet are.
C36_WritesStayInside ==
    (prog = "process_repo" /\ pc = "returned") =>
        /\ \A f \in DOMAIN repo.files : Inside(f)
        /\ \A d \in repo.dirs \ {<<"..">>, <<"/">>} : Inside(d)

====
